---- MODULE Spec2Model ----
(***************************************************************************)
(* A model of the becsy core: the precedence graph (src/src/datatypes/     *)
(* graph.ts) and the system container (src/unnamed/part_000, system.ts).   *)
(***************************************************************************)
EXTENDS Integers, Sequences, FiniteSets, TLC

(***************************************************************************)
(* Bounds of the model.                                                    *)
(***************************************************************************)
\* Number of vertices of the graph built by SpecGraph.
NumVertices == 3
\* Largest weight passed to addEdge / denyEdge.
MaxWeight == 1
\* Largest number of addEdge / denyEdge calls made before seal().
MaxCalls == 2
\* Number of vertices of the graph SpecChain starts from.
ChainVertices == 7
\* Number of vertices of the graph SpecReduce starts from.
ReduceVertices == 3
\* dispatcher.maxEntities: entity ids are 0 .. MaxEntities - 1.
MaxEntities == 2
\* Largest number of entries appended to the shape log and the write log together.
MaxLogEntries == 2
\* Largest frame time and delta handed to SystemBox.execute.
MaxTime == 1
MaxDelta == 1
\* Number of frames the world of the attachment tests executes.
MaxFrames == 2
\* Number of vertices, largest weight and number of addEdge / denyEdge calls
\* of the graph built by SpecPair.
PairVertices == 2
MaxPairWeight == 2
MaxPairCalls == 2
\* Largest number of query() calls a system makes.
MaxQueryBuilders == 2
\* Number of entity ids the world of SpecShared makes use of.
SharedEntities == 1
\* dispatcher.maxEntities of the world whose packed storage SpecStorage runs.
StorageEntities == 3

VARIABLES
  \* ---- Graph (graph.ts) ----
  numVertices,     \* Graph.numVertices
  edges,           \* Graph.edges, the flat n*n weight array
  sealed,          \* Graph.sealed
  sortedVertices,  \* Graph.sortedVertices: <<>> while undefined
  graphError,      \* the error thrown by the last Graph call, "none" if it returned
  reportedCycles,  \* the cycles listed in the error thrown by seal()
  edgesAtSeal,     \* history: Graph.edges at the moment seal() was entered
  numCalls,        \* number of addEdge / denyEdge calls made so far
  \* ---- Registry and change logs (collaborators of the system container) ----
  shapes,          \* the component set of every entity id
  shapeLog,        \* dispatcher.shapeLog: the entity ids whose shape changed
  writeLog,        \* dispatcher.writeLog: the packed (componentTypeId, entityId) entries
  \* ---- SystemBox (system.ts) ----
  box,             \* per system: the fields of its SystemBox and System
  queries,         \* per system: the result sets of its shapeQueries
  \* ---- history ----
  event,           \* the last operation and what it delivered
  consumed,        \* per system and log: the highest entry index consumed so far
  restartTail,     \* per system: the log tails restart() last re-anchored the cursors at
  \* ---- Dispatcher ----
  world,           \* the world of the attachment tests: systems, plan, frame
  \* ---- Graph: the calls on record (SpecPair) ----
  callLog,         \* the addEdge / denyEdge calls that reached setEdge, in order
  \* ---- Graph: the result of induceSubgraph (SpecInduce) ----
  subgraph,        \* the graph induceSubgraph returned, or the error it threw
  \* ---- System under construction (SpecLifecycle) ----
  system,          \* SystemBox.system: its builders, its fields, the passes run
  \* ---- PackedStorage (component.ts) ----
  storage          \* the storage manager of one component type and its binding

graphVars == <<numVertices, edges, sealed, sortedVertices, graphError,
               reportedCycles, edgesAtSeal, numCalls>>

registryVars == <<shapes, shapeLog, writeLog>>

boxVars == <<box, queries>>

historyVars == <<event, consumed, restartTail>>

\* The variables only the specifications of single components use.
moreVars == <<callLog, subgraph, system, storage>>

systemVars == <<registryVars, boxVars, historyVars, world, moreVars>>

vars == <<graphVars, systemVars>>

(***************************************************************************)
(* Helpers                                                                 *)
(***************************************************************************)
Abs(x) == IF x < 0 THEN -x ELSE x

SetMin(S) == CHOOSE x \in S : \A y \in S : x <= y

SeqToSet(q) == {q[k] : k \in 1..Len(q)}

SeqRemove(q, x) == SelectSeq(q, LAMBDA y : y # x)

\* TLC hands an operator its arguments unevaluated.  Eager(v, e) evaluates v
\* before e, so that a loop carries its state as a value from one iteration
\* to the next and not as a suspended computation.
Eager(v, e) == IF v = v THEN e ELSE e

\* Set.add on an insertion-ordered JS Set
SeqAdd(q, x) == IF x \in SeqToSet(q) THEN q ELSE Append(q, x)

(***************************************************************************)
(* The construction of one system (system.ts): the query and schedule      *)
(* builders its constructor registers, the attachments its fields hold,    *)
(* and the three passes of its SystemBox that close the construction.      *)
(* A builder is named by its build callback; dispatcher.systemsByClass is  *)
(* a collaborator and is modelled by the list of registered system types.  *)
(***************************************************************************)
SystemTypes == {"SystemA", "SystemB"}

\* The fields of the system that may hold an attachment.
Fields == {"f1", "f2"}

\* The build callbacks handed to query() and schedule().  Handed to query(),
\* cbWrite declares a write query with transient results and cb a query
\* without write access and without transient results.
BuildCallbacks == {"cb", "cbWrite"}

\* QueryBuilder.__build: the query a build callback declares.
BuiltQuery(buildCallback) ==
  [write |-> buildCallback = "cbWrite", hasTransientResults |-> buildCallback = "cbWrite"]

\* A log pointer a field does not hold (yet).
NoPointer == [defined |-> FALSE, index |-> 0]

\* new Placeholder(type)
Placeholder(type) == [kind |-> "Placeholder", type |-> type]

\* The unique instance of a system type in the world.
Instance(type) == [kind |-> "System", type |-> type]

Undefined == [kind |-> "undefined", type |-> "none"]

\* dispatcher.systemsByClass.get(type)
SystemsByClass(defs, type) ==
  IF \E i \in DOMAIN defs : defs[i] = type THEN Instance(type) ELSE Undefined

\* The lists of distinct system types a world may register.
Registrations ==
  {q \in UNION {[1..k -> SystemTypes] : k \in 1..Cardinality(SystemTypes)} :
     \A i, j \in 1..Len(q) : q[i] = q[j] => i = j}

\* A system and its SystemBox after `new`: __queryBuilders = [],
\* __scheduleBuilder undefined, no query built, no write-log pointer;
\* hasWriteQueries and hasTransientQueries are not yet assigned and read as
\* false.  othersHaveWriteQueries tells whether another system of the world
\* owns a write query.  queriesBuilt, scheduleBuilt and finished record that
\* the pass has run.
NewSystem(defs, othersHaveWriteQueries) ==
  [defs |-> defs,
   othersHaveWriteQueries |-> othersHaveWriteQueries,
   queryBuilders |-> [null |-> FALSE, list |-> <<>>],
   scheduleBuilder |-> "undefined",
   fields |-> [f \in Fields |-> Undefined],
   shapeQueries |-> <<>>,
   writeQueries |-> <<>>,
   hasWriteQueries |-> FALSE,
   hasTransientQueries |-> FALSE,
   writeLogPointer |-> NoPointer,
   queriesBuilt |-> FALSE,
   scheduleBuilt |-> FALSE,
   finished |-> FALSE,
   error |-> "none"]

NoSystem == NewSystem(<<>>, FALSE)

(***************************************************************************)
(* PackedStorage (component.ts).  The spares array is kept by its layout:  *)
(* bytesPerElement, nextIndex, capacity, numSpares and the spare indices;  *)
(* maxSpares is spares.length - 4.  dispatcher.buffers is a collaborator:  *)
(* register() is taken to resize a buffer keeping its contents.            *)
(***************************************************************************)
StorageIds == 0..(StorageEntities - 1)

\* get ArrayType(): BYTES_PER_ELEMENT of Int8Array, Int16Array or Int32Array
BytesPerElement(sparesCapacity, bindingCapacity) ==
  LET capacity == IF sparesCapacity > bindingCapacity THEN sparesCapacity ELSE bindingCapacity
  IN IF capacity < 2 ^ 7 THEN 1 ELSE IF capacity < 2 ^ 15 THEN 2 ELSE 4

\* updateSpares(spares)
UpdateSpares(st) ==
  LET capacity == IF st.capacity > st.spares.capacity THEN st.capacity ELSE st.spares.capacity
  IN [st EXCEPT !.capacity = capacity,
                !.spares.capacity = capacity,
                !.spares.bytesPerElement = BytesPerElement(st.spares.capacity, st.capacity)]

\* growCapacity()
GrowCapacity(st) ==
  LET elementSizeChanged ==
        BytesPerElement(st.spares.capacity, st.capacity) # st.spares.bytesPerElement
  IN IF elementSizeChanged
     THEN UpdateSpares(st)
     ELSE [st EXCEPT !.spares.capacity = st.capacity]

\* growSpares()
GrowSpares(st) ==
  LET maxSpares == IF st.maxSpares = 0 THEN 8
                   ELSE IF st.maxEntities < st.maxSpares * 2 THEN st.maxEntities
                   ELSE st.maxSpares * 2
  IN UpdateSpares([st EXCEPT !.maxSpares = maxSpares])

\* new PackedStorage(maxEntities, binding, fields) for a binding of the
\* given capacity: growSpares() then growCapacity().
NewPackedStorage(maxEntities, capacity, elastic) ==
  GrowCapacity(GrowSpares(
    [maxEntities |-> maxEntities,
     elastic |-> elastic,
     capacity |-> capacity,
     index |-> [id \in 0..(maxEntities - 1) |-> -1],
     maxSpares |-> 0,
     spares |-> [bytesPerElement |-> 0, nextIndex |-> 0, capacity |-> 0,
                 numSpares |-> 0, spareIndices |-> <<>>],
     returned |-> -1,
     error |-> "none"]))

NoStorage == NewPackedStorage(0, 0, FALSE)

\* No induceSubgraph call was made yet.
NoSubgraph ==
  [called |-> FALSE, subvertices |-> <<>>, edges |-> <<>>, sealed |-> FALSE,
   error |-> "none", parentEdges |-> <<>>, parentSealed |-> FALSE]

\* The variables in moreVars where their component is not in use.
MoreInit ==
  /\ callLog = <<>>
  /\ subgraph = NoSubgraph
  /\ system = NoSystem
  /\ storage = NoStorage

(***************************************************************************)
(* Graph: edges                                                            *)
(***************************************************************************)
\* new Array(numVertices ** 2).fill(0)
EmptyEdges(n) == [x \in 0..(n * n - 1) |-> 0]

GetEdgeIndex(n, source, target) == source * n + target

\* setEdge without the early return of lines 47-48: the new weight is stored
\* whatever the pair already holds.
SetEdgeOverwriting(n, E, source, target, weight) ==
  IF source = target THEN E
  ELSE LET sourceToTarget == GetEdgeIndex(n, source, target)
           targetToSource == GetEdgeIndex(n, target, source)
           absWeight == Abs(weight)
           E1 == [E EXCEPT ![sourceToTarget] = weight]
       IN IF absWeight > Abs(E1[targetToSource])
          THEN [E1 EXCEPT ![targetToSource] = 0]
          ELSE E1

\* setEdge without line 50: a stronger edge leaves the opposite entry as it is.
SetEdgeKeepingReverse(n, E, source, target, weight) ==
  IF source = target THEN E
  ELSE LET sourceToTarget == GetEdgeIndex(n, source, target)
           targetToSource == GetEdgeIndex(n, target, source)
           absWeight == Abs(weight)
       IN IF absWeight < Abs(E[sourceToTarget]) \/ absWeight < Abs(E[targetToSource])
          THEN E
          ELSE [E EXCEPT ![sourceToTarget] = weight]

\* setEdge that stores the magnitude of the weight in line 49, dropping the
\* sign of a denial.
SetEdgeStoringMagnitude(n, E, source, target, weight) ==
  IF source = target THEN E
  ELSE LET sourceToTarget == GetEdgeIndex(n, source, target)
           targetToSource == GetEdgeIndex(n, target, source)
           absWeight == Abs(weight)
       IN IF absWeight < Abs(E[sourceToTarget]) \/ absWeight < Abs(E[targetToSource])
          THEN E
          ELSE LET E1 == [E EXCEPT ![sourceToTarget] = absWeight]
               IN IF absWeight > Abs(E1[targetToSource])
                  THEN [E1 EXCEPT ![targetToSource] = 0]
                  ELSE E1

\* setEdge whose early return of lines 47-48 joins its two comparisons by
\* && : the call is dropped only when the new weight is below both entries.
SetEdgeSkippingBelowBoth(n, E, source, target, weight) ==
  IF source = target THEN E
  ELSE LET sourceToTarget == GetEdgeIndex(n, source, target)
           targetToSource == GetEdgeIndex(n, target, source)
           absWeight == Abs(weight)
       IN IF absWeight < Abs(E[sourceToTarget]) /\ absWeight < Abs(E[targetToSource])
          THEN E
          ELSE LET E1 == [E EXCEPT ![sourceToTarget] = weight]
               IN IF absWeight > Abs(E1[targetToSource])
                  THEN [E1 EXCEPT ![targetToSource] = 0]
                  ELSE E1

\* Graph.setEdge past its sealed guard: the edge array after the call.
SetEdge(n, E, source, target, weight) ==
  IF source = target THEN E
  ELSE LET sourceToTarget == GetEdgeIndex(n, source, target)
           targetToSource == GetEdgeIndex(n, target, source)
           absWeight == Abs(weight)
       IN IF absWeight < Abs(E[sourceToTarget]) \/ absWeight < Abs(E[targetToSource])
          THEN E
          ELSE LET E1 == [E EXCEPT ![sourceToTarget] = weight]
               IN IF absWeight > Abs(E1[targetToSource])
                  THEN [E1 EXCEPT ![targetToSource] = 0]
                  ELSE E1

HasEdgeBetweenIds(n, E, sourceId, targetId) == E[sourceId * n + targetId] > 0

HasEdgesFromId(n, E, sourceId) ==
  \E i \in 0..(n - 1) : HasEdgeBetweenIds(n, E, sourceId, i)

(***************************************************************************)
(* Graph.findLeastStronglyConnectedComponent: the path-based strong        *)
(* component algorithm on the vertices minId .. n-1.  The search state is  *)
(* [preorder, s, p, assigned, counter, least]; preorder 0 stands for an    *)
(* unset entry and least = {} for an undefined leastComponent.  A          *)
(* component is kept as the set of its vertices (the code sorts it and     *)
(* only reads its first element and its members).                          *)
(***************************************************************************)
RECURSIVE PopWhile(_, _, _)
PopWhile(p, preorder, w) ==
  IF Len(p) > 0 /\ preorder[p[Len(p)]] > preorder[w]
  THEN PopWhile(SubSeq(p, 1, Len(p) - 1), preorder, w)
  ELSE p

RECURSIVE SccSearch(_, _, _, _, _)
RECURSIVE SccVisit(_, _, _, _, _, _)
SccVisit(n, E, minId, st, v, w) ==
  IF w >= n THEN st
  ELSE IF ~HasEdgeBetweenIds(n, E, v, w) THEN SccVisit(n, E, minId, st, v, w + 1)
  ELSE IF st.preorder[w] # 0
       THEN IF w \notin st.assigned
            THEN LET st1 == [st EXCEPT !.p = PopWhile(st.p, st.preorder, w)]
                 IN Eager(st1, SccVisit(n, E, minId, st1, v, w + 1))
            ELSE SccVisit(n, E, minId, st, v, w + 1)
       ELSE LET st1 == SccSearch(n, E, minId, st, w)
            IN Eager(st1, SccVisit(n, E, minId, st1, v, w + 1))

SccSearch(n, E, minId, st, v) ==
  LET st1 == [st EXCEPT !.counter = st.counter + 1,
                        !.preorder[v] = st.counter + 1,
                        !.s = Append(st.s, v),
                        !.p = Append(st.p, v)]
      st2 == Eager(st1, SccVisit(n, E, minId, st1, v, minId))
  IN IF Len(st2.p) > 0 /\ st2.p[Len(st2.p)] = v
     THEN LET at == CHOOSE k \in 1..Len(st2.s) : st2.s[k] = v
              component == {st2.s[k] : k \in at..Len(st2.s)}
          IN [st2 EXCEPT !.s = SubSeq(st2.s, 1, at - 1),
                         !.p = SubSeq(st2.p, 1, Len(st2.p) - 1),
                         !.assigned = st2.assigned \cup component,
                         !.least = IF st2.least = {} \/ SetMin(component) < SetMin(st2.least)
                                   THEN component ELSE st2.least]
     ELSE st2

RECURSIVE SccOuter(_, _, _, _, _)
SccOuter(n, E, minId, st, i) ==
  IF i >= n THEN st
  ELSE IF st.preorder[i] = 0
       THEN LET st1 == SccSearch(n, E, minId, st, i)
            IN Eager(st1, SccOuter(n, E, minId, st1, i + 1))
       ELSE SccOuter(n, E, minId, st, i + 1)

FindLeastStronglyConnectedComponent(n, E, minId) ==
  SccOuter(n, E, minId,
           [preorder |-> [x \in 0..(n - 1) |-> 0], s |-> <<>>, p |-> <<>>,
            assigned |-> {}, counter |-> 0, least |-> {}],
           minId).least

(***************************************************************************)
(* Graph.findCycles: Johnson's algorithm as the code runs it.  The state   *)
(* is [blocked, b, stack, cycles]; b[u] keeps its insertion order.         *)
(***************************************************************************)
RECURSIVE Unblock(_, _)
RECURSIVE UnblockLoop(_, _, _)
UnblockLoop(st, u, ws) ==
  IF ws = <<>> THEN st
  ELSE LET w == Head(ws)
           st1 == [st EXCEPT !.b[u] = SeqRemove(st.b[u], w)]
           st2 == IF w \in st1.blocked THEN Unblock(st1, w) ELSE st1
       IN Eager(st2, UnblockLoop(st2, u, Tail(ws)))

Unblock(st, u) ==
  LET st1 == [st EXCEPT !.blocked = st.blocked \ {u}]
  IN Eager(st1, UnblockLoop(st1, u, st1.b[u]))

RECURSIVE AddToB(_, _, _, _, _, _)
AddToB(n, E, verts, st, v, w) ==
  IF w >= n THEN st
  ELSE IF w \notin verts \/ ~HasEdgeBetweenIds(n, E, v, w)
       THEN AddToB(n, E, verts, st, v, w + 1)
       ELSE LET st1 == [st EXCEPT !.b[w] = SeqAdd(st.b[w], v)]
            IN Eager(st1, AddToB(n, E, verts, st1, v, w + 1))

RECURSIVE Circuit(_, _, _, _, _, _)
RECURSIVE CircuitLoop(_, _, _, _, _, _, _)
CircuitLoop(n, E, verts, s, r, v, w) ==
  IF w >= n THEN r
  ELSE IF w \notin verts \/ ~HasEdgeBetweenIds(n, E, v, w)
       THEN CircuitLoop(n, E, verts, s, r, v, w + 1)
  ELSE IF w = s
       THEN LET r1 == [st |-> [r.st EXCEPT !.cycles = Append(r.st.cycles, r.st.stack)],
                       f |-> TRUE]
            IN Eager(r1, CircuitLoop(n, E, verts, s, r1, v, w + 1))
  ELSE IF w \notin r.st.blocked
       THEN LET c == Circuit(n, E, verts, s, r.st, w)
                r1 == [st |-> c.st, f |-> r.f \/ c.f]
            IN Eager(r1, CircuitLoop(n, E, verts, s, r1, v, w + 1))
       ELSE CircuitLoop(n, E, verts, s, r, v, w + 1)

Circuit(n, E, verts, s, st, v) ==
  LET st1 == [st EXCEPT !.stack = Append(st.stack, v),
                        !.blocked = st.blocked \cup {v}]
      r0 == [st |-> st1, f |-> FALSE]
      r == Eager(r0, CircuitLoop(n, E, verts, s, r0, v, 0))
      st2 == Eager(r, IF r.f THEN Unblock(r.st, v) ELSE AddToB(n, E, verts, r.st, v, 0))
  IN [st |-> [st2 EXCEPT !.stack = SubSeq(st2.stack, 1, Len(st2.stack) - 1)],
      f |-> r.f]

RECURSIVE FindCyclesLoop(_, _, _, _)
FindCyclesLoop(n, E, st, s) ==
  IF s >= n THEN st.cycles
  ELSE LET componentVertices == FindLeastStronglyConnectedComponent(n, E, s)
       IN IF \A v \in componentVertices : ~HasEdgesFromId(n, E, v)
          THEN st.cycles
          ELSE LET s1 == SetMin(componentVertices)
                   st1 == [st EXCEPT
                             !.blocked = st.blocked \ componentVertices,
                             !.b = [x \in 0..(n - 1) |->
                                      IF x \in componentVertices THEN <<>> ELSE st.b[x]]]
                   c == Eager(st1, Circuit(n, E, componentVertices, s1, st1, s1))
                   st2 == c.st
               IN Eager(st2, FindCyclesLoop(n, E, st2, s1 + 1))

\* The list of cycles, each the sequence of its vertices.
FindCycles(n, E) ==
  FindCyclesLoop(n, E,
                 [blocked |-> {}, b |-> [x \in 0..(n - 1) |-> <<>>],
                  stack |-> <<>>, cycles |-> <<>>],
                 0)

\* cycles.sort((x, y) => x.length - y.length): a stable sort by length.
RECURSIVE SortByLength(_)
SortByLength(cs) ==
  IF cs = <<>> THEN <<>>
  ELSE LET m == SetMin({Len(cs[k]) : k \in 1..Len(cs)})
       IN SelectSeq(cs, LAMBDA c : Len(c) = m)
          \o SortByLength(SelectSeq(cs, LAMBDA c : Len(c) # m))

(***************************************************************************)
(* Graph.simplify                                                          *)
(***************************************************************************)
\* Remove denial edges, no longer needed
RemoveDenials(n, E) == [x \in 0..(n * n - 1) |-> IF E[x] < 0 THEN 0 ELSE E[x]]

\* The path matrix: one pass over (i, j, k) in the code's loop order, each
\* step reading the matrix the earlier steps wrote.
RECURSIVE PathsK(_, _, _, _, _)
PathsK(n, paths, i, j, k) ==
  IF k >= n THEN paths
  ELSE IF paths[i * n + k] # 0 /\ paths[k * n + j] # 0
       THEN LET next == [paths EXCEPT ![i * n + j] = 1]
            IN Eager(next, PathsK(n, next, i, j, k + 1))
       ELSE PathsK(n, paths, i, j, k + 1)

RECURSIVE PathsJ(_, _, _, _)
PathsJ(n, paths, i, j) ==
  IF j >= n THEN paths
  ELSE LET next == PathsK(n, paths, i, j, 0)
       IN Eager(next, PathsJ(n, next, i, j + 1))

RECURSIVE PathsI(_, _, _)
PathsI(n, paths, i) ==
  IF i >= n THEN paths
  ELSE LET next == PathsJ(n, paths, i, 0)
       IN Eager(next, PathsI(n, next, i + 1))

\* Mutant: a path matrix that joins every vertex to every vertex.
DerivePathsComplete(n, E) == [x \in 0..(n * n - 1) |-> 1]

DerivePaths(n, E) == PathsI(n, E, 0)

\* Perform a transitive reduction
TransitiveReduction(n, E, paths) ==
  [x \in 0..(n * n - 1) |->
     LET i == x \div n
         j == x % n
     IN IF E[x] = 0 THEN 0
        ELSE IF \E k \in 0..(n - 1) : paths[i * n + k] # 0 /\ paths[k * n + j] # 0
             THEN 0 ELSE E[x]]
\* simplify without its transitive reduction (lines 266-274): only the
\* denial edges are removed.
SimplifyKeepingEdges(n, E) == RemoveDenials(n, E)

Simplify(n, E) ==
  LET E1 == RemoveDenials(n, E)
  IN TransitiveReduction(n, E1, DerivePaths(n, E1))

(***************************************************************************)
(* Graph.induceSubgraph.  The vertices of the new graph are numbered by    *)
(* their place in subvertices.                                             *)
(***************************************************************************)
\* The two nested loops over subvertices, as one index k = i * m + j: a
\* positive entry is handed to addEdge, a negative one to denyEdge, which
\* both end in setEdge with the parent's entry.
RECURSIVE InduceLoop(_, _, _, _, _)
InduceLoop(n, E, subvertices, F, k) ==
  LET m == Len(subvertices)
  IN IF k >= m * m THEN F
     ELSE LET i == k \div m
              j == k % m
              weight == E[GetEdgeIndex(n, subvertices[i + 1], subvertices[j + 1])]
              F1 == IF weight > 0 THEN SetEdge(m, F, i, j, weight)
                    ELSE IF weight < 0 THEN SetEdge(m, F, i, j, -(-weight))
                    ELSE F
          IN Eager(F1, InduceLoop(n, E, subvertices, F1, k + 1))

\* subgraph.seal() at the end of induceSubgraph, given the cycles its
\* findCycles found: the sealed graph returned, or the error thrown.
SealedSubgraph(E, subvertices, F, cycles) ==
  [called |-> TRUE,
   subvertices |-> subvertices,
   edges |-> IF Len(cycles) = 0 THEN Simplify(Len(subvertices), F) ELSE F,
   sealed |-> TRUE,
   error |-> IF Len(cycles) # 0 THEN "Precedence cycles detected" ELSE "none",
   parentEdges |-> E,
   parentSealed |-> TRUE]

\* The end of induceSubgraph: the copy F of the parent's entries is sealed
\* when the parent is.
InducedGraph(n, E, isSealed, subvertices, F) ==
  IF isSealed
  THEN SealedSubgraph(E, subvertices, F, FindCycles(Len(subvertices), F))
  ELSE [called |-> TRUE,
        subvertices |-> subvertices,
        edges |-> F,
        sealed |-> FALSE,
        error |-> "none",
        parentEdges |-> E,
        parentSealed |-> FALSE]

\* induceSubgraph(subvertices) on a graph with edges E and sealed flag
\* isSealed: the graph returned, or the error its seal() threw.
InduceSubgraph(n, E, isSealed, subvertices) ==
  CHOOSE g \in {InducedGraph(n, E, isSealed, subvertices, F) :
                  F \in {InduceLoop(n, E, subvertices, EmptyEdges(Len(subvertices)), 0)}} : TRUE

(***************************************************************************)
(* Graph.sortTopologically: [ok, vertices]; ok = FALSE is the throw of     *)
(* 'Graph has a cycle, topological sort not possible'.                     *)
(***************************************************************************)
\* Mutant: the inner loop starts at j = i, so edges towards a lower-numbered
\* vertex are not counted.
InitialEdgeCountsUpper(n, E) ==
  [j \in 0..(n - 1) |-> Cardinality({i \in 0..j : HasEdgeBetweenIds(n, E, i, j)})]

InitialEdgeCounts(n, E) ==
  [j \in 0..(n - 1) |-> Cardinality({i \in 0..(n - 1) : HasEdgeBetweenIds(n, E, i, j)})]

\* One scan of the for loop over edgeCounts, from index i on.
RECURSIVE SortScan(_, _, _, _)
SortScan(n, E, r, i) ==
  IF i >= n THEN r
  ELSE IF r.edgeCounts[i] = 0
       THEN LET r1 == [edgeCounts |->
                         [j \in 0..(n - 1) |->
                            IF j = i THEN (IF HasEdgeBetweenIds(n, E, i, i) THEN -2 ELSE -1)
                            ELSE IF HasEdgeBetweenIds(n, E, i, j)
                                 THEN r.edgeCounts[j] - 1 ELSE r.edgeCounts[j]],
                       vertices |-> Append(r.vertices, i),
                       changed |-> TRUE]
            IN Eager(r1, SortScan(n, E, r1, i + 1))
       ELSE SortScan(n, E, r, i + 1)

RECURSIVE SortRounds(_, _, _)
SortRounds(n, E, r) ==
  IF Len(r.vertices) >= n THEN [ok |-> TRUE, vertices |-> r.vertices]
  ELSE LET r0 == [r EXCEPT !.changed = FALSE]
           r1 == Eager(r0, SortScan(n, E, r0, 0))
       IN IF ~r1.changed THEN [ok |-> FALSE, vertices |-> r1.vertices]
          ELSE SortRounds(n, E, r1)

\* Mutant: the vertices in ascending id order, whatever the edges.
SortTopologicallyById(n, E) == [ok |-> TRUE, vertices |-> [i \in 1..n |-> i - 1]]

SortTopologically(n, E) ==
  SortRounds(n, E, [edgeCounts |-> InitialEdgeCounts(n, E), vertices |-> <<>>,
                    changed |-> FALSE])

(***************************************************************************)
(* Graph: the operations                                                   *)
(***************************************************************************)
GraphInit(n) ==
  /\ numVertices = n
  /\ edges = EmptyEdges(n)
  /\ sealed = FALSE
  /\ sortedVertices = <<>>
  /\ graphError = "none"
  /\ reportedCycles = <<>>
  /\ edgesAtSeal = EmptyEdges(n)
  /\ numCalls = 0

\* Mutant: addEdge whose setEdge lacks the sealed guard of line 42.
AddEdgeUnguarded(source, target, weight) ==
  /\ numCalls < MaxCalls
  /\ numCalls' = numCalls + 1
  /\ IF weight <= 0
     THEN /\ graphError' = "Edge has non-positive weight"
          /\ UNCHANGED edges
     ELSE /\ graphError' = "none"
          /\ edges' = SetEdge(numVertices, edges, source, target, weight)
  /\ UNCHANGED <<numVertices, sealed, sortedVertices, reportedCycles, edgesAtSeal>>
  /\ UNCHANGED systemVars

\* addEdge(source, target, weight) and its setEdge
AddEdge(source, target, weight) ==
  /\ numCalls < MaxCalls
  /\ numCalls' = numCalls + 1
  /\ IF weight <= 0
     THEN /\ graphError' = "Edge has non-positive weight"
          /\ UNCHANGED edges
     ELSE IF sealed
     THEN /\ graphError' = "Graph already sealed"
          /\ UNCHANGED edges
     ELSE /\ graphError' = "none"
          /\ edges' = SetEdge(numVertices, edges, source, target, weight)
  /\ UNCHANGED <<numVertices, sealed, sortedVertices, reportedCycles, edgesAtSeal>>
  /\ UNCHANGED systemVars

\* denyEdge(source, target, weight) and its setEdge
DenyEdge(source, target, weight) ==
  /\ numCalls < MaxCalls
  /\ numCalls' = numCalls + 1
  /\ IF weight <= 0
     THEN /\ graphError' = "Edge has non-positive weight"
          /\ UNCHANGED edges
     ELSE IF sealed
     THEN /\ graphError' = "Graph already sealed"
          /\ UNCHANGED edges
     ELSE /\ graphError' = "none"
          /\ edges' = SetEdge(numVertices, edges, source, target, -weight)
  /\ UNCHANGED <<numVertices, sealed, sortedVertices, reportedCycles, edgesAtSeal>>
  /\ UNCHANGED systemVars

\* seal(): the sealed flag is set before checkForCycles may throw.
Seal ==
  /\ IF sealed
     THEN /\ graphError' = "Graph already sealed"
          /\ UNCHANGED <<numVertices, edges, sealed, sortedVertices, reportedCycles,
                         edgesAtSeal, numCalls>>
     ELSE LET cycles == FindCycles(numVertices, edges)
          IN /\ sealed' = TRUE
             /\ edgesAtSeal' = edges
             /\ IF Len(cycles) # 0
                THEN /\ graphError' = "Precedence cycles detected"
                     /\ reportedCycles' = SortByLength(cycles)
                     /\ UNCHANGED edges
                ELSE /\ graphError' = "none"
                     /\ edges' = Simplify(numVertices, edges)
                     /\ UNCHANGED reportedCycles
             /\ UNCHANGED <<numVertices, sortedVertices, numCalls>>
  /\ UNCHANGED systemVars

\* get topologicallSortedVertices
GetTopologicallSortedVertices ==
  /\ IF ~sealed
     THEN /\ graphError' = "Graph not yet sealed"
          /\ UNCHANGED sortedVertices
     ELSE IF sortedVertices # <<>>
     THEN /\ graphError' = "none"
          /\ UNCHANGED sortedVertices
     ELSE LET r == SortTopologically(numVertices, edges)
          IN IF r.ok
             THEN /\ graphError' = "none"
                  /\ sortedVertices' = r.vertices
             ELSE /\ graphError' = "Graph has a cycle, topological sort not possible"
                  /\ UNCHANGED sortedVertices
  /\ UNCHANGED <<numVertices, edges, sealed, reportedCycles, edgesAtSeal, numCalls>>
  /\ UNCHANGED systemVars

(***************************************************************************)
(* The world the systems run in.  The registry, the component types, the   *)
(* change logs and the query boxes are collaborators whose code is not     *)
(* part of the sources modelled here; they are modelled from their         *)
(* documented interface.                                                   *)
(***************************************************************************)
Entities == 0..(MaxEntities - 1)

\* registry.Alive marks a live entity; A is an ordinary component type.
ComponentTypes == {"Alive", "A"}

\* The dense id of a component type.
TypeId(c) == IF c = "Alive" THEN 0 ELSE 1

ENTITY_ID_BITS == 22

ENTITY_ID_MASK == 2 ^ ENTITY_ID_BITS - 1

\* A write-log entry: (componentTypeId << ENTITY_ID_BITS) | entityId
WriteEntry(c, e) == TypeId(c) * (2 ^ ENTITY_ID_BITS) + e

\* registry.hasShape(id, type, false)
HasShape(shp, id, type) == type \in shp[id]

\* Log.createPointer(): a cursor at the current tail
CreatePointer(log) == Len(log)

\* Log.hasUpdatesSince(pointer)
HasUpdatesSince(log, pointer) == pointer < Len(log)

\* Log.processSince(pointer): the slice [startIndex, endIndex) not yet
\* consumed and the advanced cursor, or none.
ProcessSince(log, pointer) ==
  IF pointer < Len(log)
  THEN [none |-> FALSE, startIndex |-> pointer + 1, endIndex |-> Len(log) + 1,
        pointer |-> Len(log)]
  ELSE [none |-> TRUE, startIndex |-> 0, endIndex |-> 0, pointer |-> pointer]

(***************************************************************************)
(* The systems of the world and the queries their constructors declare.    *)
(* S1 owns a write query (with A, tracking writes to A, with transient     *)
(* results) and a plain query (without A).  S2, which only the world of    *)
(* SpecShared registers, owns one query (with A, with transient results)   *)
(* and no write query.                                                     *)
(***************************************************************************)
Systems == {"S1"}

\* The systems of the world of SpecShared.
SharedSystems == {"S1", "S2"}

QueryDefs(s) ==
  IF s = "S2"
  THEN << [with |-> {"A"}, without |-> {}, watch |-> {}, transient |-> TRUE] >>
  ELSE << [with |-> {"A"}, without |-> {}, watch |-> {"A"}, transient |-> TRUE],
          [with |-> {}, without |-> {"A"}, watch |-> {}, transient |-> FALSE] >>

\* SystemBox.shapeQueries and SystemBox.writeQueries, as indices into QueryDefs
ShapeQueries(s) == DOMAIN QueryDefs(s)
WriteQueries(s) == {k \in DOMAIN QueryDefs(s) : QueryDefs(s)[k].watch # {}}

\* The live entities whose shape satisfies a query's predicate.
Matches(qd, shape) ==
  /\ "Alive" \in shape
  /\ qd.with \subseteq shape
  /\ qd.without \cap shape = {}

MatchingEntities(qd, shp) == {e \in Entities : Matches(qd, shp[e])}

\* QueryBox.handleShapeUpdate(id)
HandleShapeUpdate(qd, q, id, shp) ==
  LET match == Matches(qd, shp[id])
  IN IF match = (id \in q.results) THEN q
     ELSE [results |-> IF match THEN q.results \cup {id} ELSE q.results \ {id},
           transient |-> IF qd.transient THEN q.transient \cup {id} ELSE q.transient]

\* QueryBox.handleWrite(id, wordOffset, bitMask)
HandleWrite(qd, q, id, wordOffset, bitMask) ==
  IF /\ \E c \in qd.watch : TypeId(c) \div 32 = wordOffset /\ 2 ^ (TypeId(c) % 32) = bitMask
     /\ id \in q.results
     /\ qd.transient
  THEN [q EXCEPT !.transient = q.transient \cup {id}]
  ELSE q

\* QueryBox.clearTransientResults()
ClearTransientResults(q) == [q EXCEPT !.transient = {}]

\* QueryBox.clearAllResults()
ClearAllResults(q) == [results |-> {}, transient |-> {}]

(***************************************************************************)
(* SystemBox (system.ts)                                                   *)
(***************************************************************************)
\* The box after the constructor, buildQueries and finishConstructing; time
\* and delta 0 stand for the fields not yet set.
NewBox(s, sLog, wLog) ==
  [state |-> "RUNNING",
   shapeLogPointer |-> CreatePointer(sLog),
   writeLogPointer |-> CreatePointer(wLog),
   processedEntities |-> {},
   ranQueriesLastFrame |-> FALSE,
   hasWriteQueries |-> WriteQueries(s) # {},
   hasTransientQueries |-> \E k \in ShapeQueries(s) : QueryDefs(s)[k].transient,
   time |-> 0,
   delta |-> 0]

\* Mutant: execute without the run-state guard.
ExecuteRunsAlways(bx) == TRUE

\* if (this.state !== RunState.RUNNING) return;
ExecuteRuns(bx) == bx.state = "RUNNING"

\* Mutant: the processed-entity marks are not cleared before an update.
KeepProcessed(processed) == processed

\* this.processedEntities.clear()
ClearProcessed(processed) == {}

\* Mutant: the processed-entity mark is not consulted.
ShapeEntryAlwaysNew(processed, id) == TRUE

\* if (!this.processedEntities.get(id)) in __updateShapeQueries
ShapeEntryIsNew(processed, id) == id \notin processed

\* The loop state of an update: the box, its queries' result sets, and the
\* record of what was delivered to handleShapeUpdate and to handleWrite.
RECURSIVE UpdateShapeLoop(_, _, _, _, _, _)
UpdateShapeLoop(s, st, log, shp, i, endIndex) ==
  IF i >= endIndex THEN st
  ELSE LET id == log[i]
       IN IF ShapeEntryIsNew(st.box.processedEntities, id)
          THEN LET st1 == [st EXCEPT
                             !.box.processedEntities = st.box.processedEntities \cup {id},
                             !.qs = [k \in DOMAIN st.qs |->
                                       HandleShapeUpdate(QueryDefs(s)[k], st.qs[k], id, shp)],
                             !.shapeDelivered = Append(st.shapeDelivered, id)]
               IN Eager(st1, UpdateShapeLoop(s, st1, log, shp, i + 1, endIndex))
          ELSE UpdateShapeLoop(s, st, log, shp, i + 1, endIndex)

\* SystemBox.__updateShapeQueries
RECURSIVE UpdateShapeQueries(_, _, _, _)
UpdateShapeQueries(s, st, log, shp) ==
  LET r == ProcessSince(log, st.box.shapeLogPointer)
  IN IF r.none THEN st
     ELSE LET st1 == [st EXCEPT !.box.shapeLogPointer = r.pointer]
              st2 == Eager(st1, UpdateShapeLoop(s, st1, log, shp, r.startIndex, r.endIndex))
          IN Eager(st2, UpdateShapeQueries(s, st2, log, shp))

\* Mutant: the processed-entity mark is not consulted for a write.
WriteEntryAlwaysNew(processed, entityId) == TRUE

\* if (!this.processedEntities.get(entityId)) in __updateWriteQueries
WriteEntryIsNew(processed, entityId) == entityId \notin processed

RECURSIVE UpdateWriteLoop(_, _, _, _, _)
UpdateWriteLoop(s, st, log, i, endIndex) ==
  IF i >= endIndex THEN st
  ELSE LET entry == log[i]
           entityId == entry % (ENTITY_ID_MASK + 1)
           componentId == entry \div (2 ^ ENTITY_ID_BITS)
           wordOffset == componentId \div 32
           bitMask == 2 ^ (componentId % 32)
       IN IF WriteEntryIsNew(st.box.processedEntities, entityId)
          THEN LET st1 == [st EXCEPT
                             !.qs = [k \in DOMAIN st.qs |->
                                       IF k \in WriteQueries(s)
                                       THEN HandleWrite(QueryDefs(s)[k], st.qs[k],
                                                        entityId, wordOffset, bitMask)
                                       ELSE st.qs[k]],
                             !.writeDelivered =
                                Append(st.writeDelivered, <<entityId, wordOffset, bitMask>>)]
               IN Eager(st1, UpdateWriteLoop(s, st1, log, i + 1, endIndex))
          ELSE UpdateWriteLoop(s, st, log, i + 1, endIndex)

\* SystemBox.__updateWriteQueries
RECURSIVE UpdateWriteQueries(_, _, _)
UpdateWriteQueries(s, st, log) ==
  LET r == ProcessSince(log, st.box.writeLogPointer)
  IN IF r.none THEN st
     ELSE LET st1 == [st EXCEPT !.box.writeLogPointer = r.pointer]
              st2 == Eager(st1, UpdateWriteLoop(s, st1, log, r.startIndex, r.endIndex))
          IN Eager(st2, UpdateWriteQueries(s, st2, log))

\* runQueries whose condition of line 241 lacks
\* `this.hasTransientQueries && this.ranQueriesLastFrame`: an update without
\* new log entries does no work.
RunQueriesIdleDoesNothing(s, bx, qs, sLog, wLog, shp) ==
  LET shapesChanged == HasUpdatesSince(sLog, bx.shapeLogPointer)
      writesMade == bx.hasWriteQueries /\ HasUpdatesSince(wLog, bx.writeLogPointer)
      st0 == [box |-> bx, qs |-> qs, shapeDelivered |-> <<>>, writeDelivered |-> <<>>]
  IN IF shapesChanged \/ writesMade
     THEN LET st1 == [st0 EXCEPT !.qs = [k \in DOMAIN qs |-> ClearTransientResults(qs[k])]]
              st2 == [st1 EXCEPT
                        !.box.ranQueriesLastFrame = TRUE,
                        !.box.processedEntities = ClearProcessed(bx.processedEntities)]
              st3 == IF shapesChanged
                     THEN Eager(st2, UpdateShapeQueries(s, st2, sLog, shp))
                     ELSE st2
          IN IF writesMade
             THEN Eager(st3, UpdateWriteQueries(s, st3, wLog))
             ELSE st3
     ELSE [st0 EXCEPT !.box.ranQueriesLastFrame = FALSE]

\* SystemBox.runQueries
RunQueries(s, bx, qs, sLog, wLog, shp) ==
  LET shapesChanged == HasUpdatesSince(sLog, bx.shapeLogPointer)
      writesMade == bx.hasWriteQueries /\ HasUpdatesSince(wLog, bx.writeLogPointer)
      st0 == [box |-> bx, qs |-> qs, shapeDelivered |-> <<>>, writeDelivered |-> <<>>]
  IN IF shapesChanged \/ writesMade \/ (bx.hasTransientQueries /\ bx.ranQueriesLastFrame)
     THEN LET st1 == [st0 EXCEPT !.qs = [k \in DOMAIN qs |-> ClearTransientResults(qs[k])]]
          IN IF shapesChanged \/ writesMade
             THEN LET st2 == [st1 EXCEPT
                                !.box.ranQueriesLastFrame = TRUE,
                                !.box.processedEntities = ClearProcessed(bx.processedEntities)]
                      st3 == IF shapesChanged
                             THEN Eager(st2, UpdateShapeQueries(s, st2, sLog, shp))
                             ELSE st2
                  IN IF writesMade
                     THEN Eager(st3, UpdateWriteQueries(s, st3, wLog))
                     ELSE st3
             ELSE [st1 EXCEPT !.box.ranQueriesLastFrame = FALSE]
     ELSE [st0 EXCEPT !.box.ranQueriesLastFrame = FALSE]

\* Mutant: stop() clears only the transient results.
StopQueriesTransientsOnly(qs) == [k \in DOMAIN qs |-> ClearTransientResults(qs[k])]

\* stop(): for (const query of this.shapeQueries) query.clearAllResults()
StopQueries(qs) == [k \in DOMAIN qs |-> ClearAllResults(qs[k])]

\* restart(): a shape update of every live entity, then the transients cleared
RECURSIVE RestartLoop(_, _, _, _)
RestartLoop(s, qs, shp, id) ==
  IF id >= MaxEntities THEN qs
  ELSE IF HasShape(shp, id, "Alive")
       THEN LET qs1 == [k \in DOMAIN qs |-> HandleShapeUpdate(QueryDefs(s)[k], qs[k], id, shp)]
            IN Eager(qs1, RestartLoop(s, qs1, shp, id + 1))
       ELSE RestartLoop(s, qs, shp, id + 1)

RestartQueries(s, qs, shp) ==
  LET qs1 == RestartLoop(s, qs, shp, 0)
  IN [k \in DOMAIN qs1 |-> ClearTransientResults(qs1[k])]

\* Mutant: restart() leaves the cursors where they were.
RestartPointersKept(bx, sLog, wLog) == bx

\* Mutant: restart() rewinds the cursors to the start of the logs.
RestartPointersAtStart(bx, sLog, wLog) ==
  [bx EXCEPT !.shapeLogPointer = 0, !.writeLogPointer = 0]

\* restart(): both cursors re-anchored at the tail of their log
RestartPointers(bx, sLog, wLog) ==
  [bx EXCEPT !.shapeLogPointer = CreatePointer(sLog),
             !.writeLogPointer = CreatePointer(wLog)]

(***************************************************************************)
(* History: what the last operation was and what it delivered.             *)
(***************************************************************************)
Event(op, s) ==
  [op |-> op, sys |-> s, body |-> FALSE, wasStopped |-> FALSE,
   shapeFrom |-> 0, writeFrom |-> 0, shapeDelivered |-> <<>>, writeDelivered |-> <<>>]

LogEntries == Len(shapeLog) + Len(writeLog)

\* The world after World.create with the given systems and no entity.
SystemInitOf(systems) ==
  /\ shapes = [e \in Entities |-> {}]
  /\ shapeLog = <<>>
  /\ writeLog = <<>>
  /\ box = [s \in systems |-> NewBox(s, <<>>, <<>>)]
  /\ queries = [s \in systems |->
                  [k \in ShapeQueries(s) |-> [results |-> {}, transient |-> {}]]]
  /\ event = Event("create", "none")
  /\ consumed = [s \in systems |-> [shape |-> 0, write |-> 0]]
  /\ restartTail = [s \in systems |->
                      [shapeFrom |-> 0, shape |-> 0, write |-> 0]]

SystemInit == SystemInitOf(Systems)

(***************************************************************************)
(* The registry's mutations, as the bodies of systems or the application   *)
(* make them; each appends to a change log.                                *)
(***************************************************************************)
CreateEntity(e, comps) ==
  /\ ~HasShape(shapes, e, "Alive")
  /\ LogEntries < MaxLogEntries
  /\ shapes' = [shapes EXCEPT ![e] = {"Alive"} \cup comps]
  /\ shapeLog' = Append(shapeLog, e)
  /\ event' = Event("mutate", "none")
  /\ UNCHANGED <<writeLog, boxVars, consumed, restartTail, graphVars, world, moreVars>>

DeleteEntity(e) ==
  /\ HasShape(shapes, e, "Alive")
  /\ LogEntries < MaxLogEntries
  /\ shapes' = [shapes EXCEPT ![e] = {}]
  /\ shapeLog' = Append(shapeLog, e)
  /\ event' = Event("mutate", "none")
  /\ UNCHANGED <<writeLog, boxVars, consumed, restartTail, graphVars, world, moreVars>>

AddComponent(e, c) ==
  /\ HasShape(shapes, e, "Alive")
  /\ ~HasShape(shapes, e, c)
  /\ LogEntries < MaxLogEntries
  /\ shapes' = [shapes EXCEPT ![e] = shapes[e] \cup {c}]
  /\ shapeLog' = Append(shapeLog, e)
  /\ event' = Event("mutate", "none")
  /\ UNCHANGED <<writeLog, boxVars, consumed, restartTail, graphVars, world, moreVars>>

RemoveComponent(e, c) ==
  /\ HasShape(shapes, e, "Alive")
  /\ HasShape(shapes, e, c)
  /\ LogEntries < MaxLogEntries
  /\ shapes' = [shapes EXCEPT ![e] = shapes[e] \ {c}]
  /\ shapeLog' = Append(shapeLog, e)
  /\ event' = Event("mutate", "none")
  /\ UNCHANGED <<writeLog, boxVars, consumed, restartTail, graphVars, world, moreVars>>

\* A write to a tracked component of a live entity
WriteComponent(e, c) ==
  /\ HasShape(shapes, e, "Alive")
  /\ HasShape(shapes, e, c)
  /\ LogEntries < MaxLogEntries
  /\ writeLog' = Append(writeLog, WriteEntry(c, e))
  /\ event' = Event("mutate", "none")
  /\ UNCHANGED <<shapes, shapeLog, boxVars, consumed, restartTail, graphVars, world, moreVars>>

(***************************************************************************)
(* SystemBox: the operations                                               *)
(***************************************************************************)
\* SystemBox.execute(time, delta); event.body records the call of the
\* user's execute body.
Execute(s, time, delta) ==
  IF ~ExecuteRuns(box[s])
  THEN /\ event' = [Event("execute", s) EXCEPT !.wasStopped = box[s].state = "STOPPED"]
       /\ UNCHANGED <<registryVars, boxVars, consumed, restartTail, graphVars, world, moreVars>>
  ELSE LET bx == [box[s] EXCEPT !.time = time, !.delta = delta]
           r == RunQueries(s, bx, queries[s], shapeLog, writeLog, shapes)
       IN /\ box' = [box EXCEPT ![s] = r.box]
          /\ queries' = [queries EXCEPT ![s] = r.qs]
          /\ event' = [op |-> "execute", sys |-> s, body |-> TRUE,
                       wasStopped |-> box[s].state = "STOPPED",
                       shapeFrom |-> box[s].shapeLogPointer,
                       writeFrom |-> box[s].writeLogPointer,
                       shapeDelivered |-> r.shapeDelivered,
                       writeDelivered |-> r.writeDelivered]
          /\ consumed' = [consumed EXCEPT ![s] =
               [shape |-> IF /\ r.box.shapeLogPointer # box[s].shapeLogPointer
                             /\ r.box.shapeLogPointer > consumed[s].shape
                          THEN r.box.shapeLogPointer
                          ELSE consumed[s].shape,
                write |-> IF /\ r.box.writeLogPointer # box[s].writeLogPointer
                             /\ r.box.writeLogPointer > consumed[s].write
                          THEN r.box.writeLogPointer
                          ELSE consumed[s].write]]
          /\ UNCHANGED <<registryVars, restartTail, graphVars, world, moreVars>>

\* SystemBox.stop()
Stop(s) ==
  /\ IF box[s].state = "STOPPED"
     THEN UNCHANGED boxVars
     ELSE /\ box' = [box EXCEPT ![s].state = "STOPPED"]
          /\ queries' = [queries EXCEPT ![s] = StopQueries(queries[s])]
  /\ event' = Event("stop", s)
  /\ UNCHANGED <<registryVars, consumed, restartTail, graphVars, world, moreVars>>

\* SystemBox.restart()
Restart(s) ==
  /\ IF box[s].state = "STOPPED"
     THEN /\ queries' = [queries EXCEPT ![s] = RestartQueries(s, queries[s], shapes)]
          /\ box' = [box EXCEPT ![s] =
                       [RestartPointers(box[s], shapeLog, writeLog) EXCEPT !.state = "RUNNING"]]
          /\ restartTail' = [restartTail EXCEPT ![s] =
                               [shapeFrom |-> box[s].shapeLogPointer,
                                shape |-> Len(shapeLog),
                                write |-> Len(writeLog)]]
     ELSE /\ box' = [box EXCEPT ![s].state = "RUNNING"]
          /\ UNCHANGED <<queries, restartTail>>
  /\ event' = [Event("restart", s) EXCEPT !.wasStopped = box[s].state = "STOPPED"]
  /\ UNCHANGED <<registryVars, consumed, graphVars, world, moreVars>>

(***************************************************************************)
(* The world of the attachment tests (system.test.ts): SystemA copies its  *)
(* message field to the global `message`; SystemB holds an attachment to   *)
(* SystemA, declares schedule(s => s.before(SystemA)) and writes 'hello'   *)
(* into the attached system.  A third system, SystemC, with a schedule of  *)
(* its own may be registered next to them.  The dispatcher and the         *)
(* schedule builder are collaborators outside the sources modelled here.   *)
(***************************************************************************)
\* The defs handed to World.create: SystemA and SystemB in either order,
\* alone or with SystemC at any place.
WorldDefs ==
  { <<"SystemA", "SystemB">>, <<"SystemB", "SystemA">>,
    <<"SystemA", "SystemB", "SystemC">>, <<"SystemA", "SystemC", "SystemB">>,
    <<"SystemB", "SystemA", "SystemC">>, <<"SystemB", "SystemC", "SystemA">>,
    <<"SystemC", "SystemA", "SystemB">>, <<"SystemC", "SystemB", "SystemA">> }

\* The schedules SystemC may declare, as the calls of its build callback.
SystemCSchedules ==
  { <<>>,
    << [op |-> "before", peer |-> "SystemA"] >>,
    << [op |-> "after", peer |-> "SystemA"] >>,
    << [op |-> "before", peer |-> "SystemB"] >>,
    << [op |-> "after", peer |-> "SystemB"] >>,
    << [op |-> "after", peer |-> "SystemB"], [op |-> "before", peer |-> "SystemA"] >>,
    << [op |-> "after", peer |-> "SystemA"], [op |-> "before", peer |-> "SystemB"] >> }

\* System.schedule(buildCallback) in the constructors: the schedule builder
\* each system holds; "undefined" when schedule() was not called.
ScheduleBuilders(cSchedule) ==
  [s \in {"SystemA", "SystemB", "SystemC"} |->
     IF s = "SystemB" THEN << [op |-> "before", peer |-> "SystemA"] >>
     ELSE IF s = "SystemC" /\ cSchedule # <<>> THEN cSchedule
     ELSE "undefined"]

\* The dense id of a system: its place in the registration order.
SystemId(defs, s) == CHOOSE i \in 0..(Len(defs) - 1) : defs[i + 1] = s

\* The world after the systems were constructed and registered.
NewWorld(defs, cSchedule, weight) ==
  [defs |-> defs,
   phase |-> "registered",
   scheduleBuilder |-> ScheduleBuilders(cSchedule),
   weight |-> weight,
   built |-> 0,
   finished |-> 0,
   systemA |-> "Placeholder(SystemA)",    \* SystemB.systemA = this.attach(SystemA)
   plan |-> <<>>,
   frame |-> 0,
   pos |-> 0,
   ran |-> <<>>,
   aMessage |-> "undefined",              \* SystemA.message
   message |-> "undefined",               \* the global message of the test
   error |-> "none"]

NoWorld == NewWorld(<<>>, <<>>, 0)

\* ScheduleBuilder.__build: before(peer) is an edge from this system to the
\* peer, after(peer) an edge from the peer to this system.
RECURSIVE BuildEdges(_, _, _, _, _, _)
BuildEdges(n, E, defs, s, calls, weight) ==
  IF calls = <<>> THEN E
  ELSE LET c == Head(calls)
           E1 == IF c.op = "before"
                 THEN SetEdge(n, E, SystemId(defs, s), SystemId(defs, c.peer), weight)
                 ELSE SetEdge(n, E, SystemId(defs, c.peer), SystemId(defs, s), weight)
       IN Eager(E1, BuildEdges(n, E1, defs, s, Tail(calls), weight))

\* SystemBox.buildSchedule of the next system in registration order
BuildSchedule ==
  /\ world.phase = "registered"
  /\ LET s == world.defs[world.built + 1]
         builder == world.scheduleBuilder[s]
     IN /\ edges' = IF builder = "undefined" THEN edges
                    ELSE BuildEdges(numVertices, edges, world.defs, s, builder, world.weight)
        /\ world' = [world EXCEPT
                       !.scheduleBuilder[s] = "null",
                       !.built = world.built + 1,
                       !.phase = IF world.built + 1 = Len(world.defs)
                                 THEN "scheduled" ELSE "registered"]
  /\ UNCHANGED <<numVertices, sealed, sortedVertices, graphError, reportedCycles,
                 edgesAtSeal, numCalls>>
  /\ UNCHANGED <<registryVars, boxVars, historyVars, moreVars>>

\* The dispatcher seals the precedence graph and stores the topological
\* order; a precedence cycle fails the creation of the world.
PlanSystems ==
  /\ world.phase = "scheduled"
  /\ LET cycles == FindCycles(numVertices, edges)
     IN /\ sealed' = TRUE
        /\ edgesAtSeal' = edges
        /\ IF Len(cycles) # 0
           THEN /\ graphError' = "Precedence cycles detected"
                /\ reportedCycles' = SortByLength(cycles)
                /\ world' = [world EXCEPT !.phase = "failed",
                                          !.error = "Precedence cycles detected"]
                /\ UNCHANGED <<edges, sortedVertices>>
           ELSE LET reduced == Simplify(numVertices, edges)
                    r == SortTopologically(numVertices, reduced)
                IN /\ edges' = reduced
                   /\ UNCHANGED reportedCycles
                   /\ IF r.ok
                      THEN /\ graphError' = "none"
                           /\ sortedVertices' = r.vertices
                           /\ world' = [world EXCEPT
                                 !.phase = "planned",
                                 !.plan = [i \in 1..Len(r.vertices) |->
                                             world.defs[r.vertices[i] + 1]]]
                      ELSE /\ graphError' = "Graph has a cycle, topological sort not possible"
                           /\ world' = [world EXCEPT !.phase = "failed",
                                 !.error = "Graph has a cycle, topological sort not possible"]
                           /\ UNCHANGED sortedVertices
  /\ UNCHANGED <<numVertices, numCalls>>
  /\ UNCHANGED <<registryVars, boxVars, historyVars, moreVars>>

\* SystemBox.finishConstructing of the next system in registration order:
\* replaceAttachmentPlaceholders resolves SystemB.systemA.
FinishConstructing ==
  /\ world.phase = "planned"
  /\ LET s == world.defs[world.finished + 1]
         done == world.finished + 1 = Len(world.defs)
     IN IF s = "SystemB" /\ world.systemA = "Placeholder(SystemA)"
        THEN IF \E i \in DOMAIN world.defs : world.defs[i] = "SystemA"
             THEN world' = [world EXCEPT
                              !.systemA = "SystemA",
                              !.finished = world.finished + 1,
                              !.phase = IF done THEN "ready" ELSE "planned"]
             ELSE world' = [world EXCEPT
                              !.phase = "failed",
                              !.error = "Attached system SystemA not defined in this world"]
        ELSE world' = [world EXCEPT
                         !.finished = world.finished + 1,
                         !.phase = IF done THEN "ready" ELSE "planned"]
  /\ UNCHANGED <<graphVars, registryVars, boxVars, historyVars, moreVars>>

\* world.execute(): a frame begins
BeginFrame ==
  /\ world.phase = "ready"
  /\ world.pos = 0
  /\ world.frame < MaxFrames
  /\ world' = [world EXCEPT !.frame = world.frame + 1, !.pos = 1, !.ran = <<>>]
  /\ UNCHANGED <<graphVars, registryVars, boxVars, historyVars, moreVars>>

\* The dispatcher invokes the next system of the stored order: the execute
\* bodies of SystemA and SystemB of the test.
ExecuteNextSystem ==
  /\ world.phase = "ready"
  /\ world.pos >= 1
  /\ LET s == world.plan[world.pos]
         next == IF world.pos = Len(world.plan) THEN 0 ELSE world.pos + 1
     IN world' = [world EXCEPT
                    !.pos = next,
                    !.ran = Append(world.ran, s),
                    !.message = IF s = "SystemA" THEN world.aMessage ELSE world.message,
                    !.aMessage = IF s = "SystemB" /\ world.systemA = "SystemA"
                                 THEN "hello" ELSE world.aMessage]
  /\ UNCHANGED <<graphVars, registryVars, boxVars, historyVars, moreVars>>

(***************************************************************************)
(* SpecWorld: the worlds of the test created for every registration order  *)
(* and every schedule of SystemC, then executed for MaxFrames frames.      *)
(***************************************************************************)
InitWorld ==
  /\ \E defs \in WorldDefs, weight \in 1..MaxWeight :
        \E cSchedule \in IF Len(defs) = 2 THEN {<<>>} ELSE SystemCSchedules :
           /\ world = NewWorld(defs, cSchedule, weight)
           /\ GraphInit(Len(defs))
  /\ SystemInit
  /\ MoreInit

NextWorld ==
  \/ BuildSchedule
  \/ PlanSystems
  \/ FinishConstructing
  \/ BeginFrame
  \/ ExecuteNextSystem

SpecWorld == InitWorld /\ [][NextWorld]_vars

(***************************************************************************)
(* SpecSystem: a system of a created world executed, stopped and restarted *)
(* in any order while entities are created, changed, written and deleted.  *)
(***************************************************************************)
InitSystem == SystemInit /\ GraphInit(0) /\ world = NoWorld /\ MoreInit

NextSystem ==
  \/ \E e \in Entities, comps \in SUBSET {"A"} : CreateEntity(e, comps)
  \/ \E e \in Entities : DeleteEntity(e)
  \/ \E e \in Entities : AddComponent(e, "A")
  \/ \E e \in Entities : RemoveComponent(e, "A")
  \/ \E e \in Entities : WriteComponent(e, "A")
  \/ \E s \in Systems, time \in 1..MaxTime, delta \in 1..MaxDelta : Execute(s, time, delta)
  \/ \E s \in Systems : Stop(s)
  \/ \E s \in Systems : Restart(s)

SpecSystem == InitSystem /\ [][NextSystem]_vars

(***************************************************************************)
(* SpecShared: a world of two systems, S1 with a write query and S2 with   *)
(* none, each executed, stopped and restarted in any order while entities  *)
(* are created, changed, written and deleted.                              *)
(***************************************************************************)
InitShared == SystemInitOf(SharedSystems) /\ GraphInit(0) /\ world = NoWorld /\ MoreInit

NextShared ==
  \/ \E e \in 0..(SharedEntities - 1), comps \in SUBSET {"A"} : CreateEntity(e, comps)
  \/ \E e \in 0..(SharedEntities - 1) : DeleteEntity(e)
  \/ \E e \in 0..(SharedEntities - 1) : AddComponent(e, "A")
  \/ \E e \in 0..(SharedEntities - 1) : RemoveComponent(e, "A")
  \/ \E e \in 0..(SharedEntities - 1) : WriteComponent(e, "A")
  \/ \E s \in SharedSystems : Execute(s, MaxTime, MaxDelta)
  \/ Stop("S2")
  \/ Restart("S2")

SpecShared == InitShared /\ [][NextShared]_vars

(***************************************************************************)
(* SpecGraph: every graph over NumVertices vertices built by at most       *)
(* MaxCalls addEdge / denyEdge calls, sealed and sorted at any point.      *)
(***************************************************************************)
InitGraph == GraphInit(NumVertices) /\ SystemInit /\ world = NoWorld /\ MoreInit

NextGraph ==
  \/ \E a \in 0..(NumVertices - 1), b \in 0..(NumVertices - 1), w \in 1..MaxWeight :
       AddEdge(a, b, w)
  \/ \E a \in 0..(NumVertices - 1), b \in 0..(NumVertices - 1), w \in 1..MaxWeight :
       DenyEdge(a, b, w)
  \/ Seal
  \/ GetTopologicallSortedVertices

SpecGraph == InitGraph /\ [][NextGraph]_vars

(***************************************************************************)
(* SpecChain: a graph over ChainVertices vertices on which the schedule    *)
(* has already declared the chain 5 -> 6 -> 4 -> 2 -> 3 -> 1 (five         *)
(* addEdge calls of weight 1 on the empty graph), followed by at most      *)
(* MaxCalls further addEdge / denyEdge calls, seal() and the sort.         *)
(***************************************************************************)
RECURSIVE AddPath(_, _, _)
AddPath(n, E, path) ==
  IF Len(path) < 2 THEN E
  ELSE LET E1 == SetEdge(n, E, path[1], path[2], 1)
       IN Eager(E1, AddPath(n, E1, Tail(path)))

InitChain ==
  /\ numVertices = ChainVertices
  /\ edges = AddPath(ChainVertices, EmptyEdges(ChainVertices), <<5, 6, 4, 2, 3, 1>>)
  /\ sealed = FALSE
  /\ sortedVertices = <<>>
  /\ graphError = "none"
  /\ reportedCycles = <<>>
  /\ edgesAtSeal = EmptyEdges(ChainVertices)
  /\ numCalls = 0
  /\ SystemInit
  /\ world = NoWorld
  /\ MoreInit

NextChain ==
  \/ \E a \in 0..(ChainVertices - 1), b \in 0..(ChainVertices - 1), w \in 1..MaxWeight :
       AddEdge(a, b, w)
  \/ \E a \in 0..(ChainVertices - 1), b \in 0..(ChainVertices - 1), w \in 1..MaxWeight :
       DenyEdge(a, b, w)
  \/ Seal
  \/ GetTopologicallSortedVertices

SpecChain == InitChain /\ [][NextChain]_vars

(***************************************************************************)
(* SpecReduce: a graph over ReduceVertices vertices on which the chain     *)
(* 2 -> 0 -> 1 has been declared (two addEdge calls of weight 1 on the     *)
(* empty graph), followed by at most MaxCalls further addEdge /            *)
(* denyEdge calls between distinct vertices, seal() and the sort.          *)
(***************************************************************************)
InitReduce ==
  /\ numVertices = ReduceVertices
  /\ edges = AddPath(ReduceVertices, EmptyEdges(ReduceVertices), <<2, 0, 1>>)
  /\ sealed = FALSE
  /\ sortedVertices = <<>>
  /\ graphError = "none"
  /\ reportedCycles = <<>>
  /\ edgesAtSeal = EmptyEdges(ReduceVertices)
  /\ numCalls = 0
  /\ SystemInit
  /\ world = NoWorld
  /\ MoreInit

NextReduce ==
  \/ \E a \in 0..(ReduceVertices - 1), b \in 0..(ReduceVertices - 1), w \in 1..MaxWeight :
       a # b /\ AddEdge(a, b, w)
  \/ \E a \in 0..(ReduceVertices - 1), b \in 0..(ReduceVertices - 1), w \in 1..MaxWeight :
       a # b /\ DenyEdge(a, b, w)
  \/ Seal
  \/ GetTopologicallSortedVertices

SpecReduce == InitReduce /\ [][NextReduce]_vars

(***************************************************************************)
(* SpecInduce: a graph over NumVertices vertices built by at most MaxCalls *)
(* addEdge / denyEdge calls, sealed at any point, and then asked for the   *)
(* subgraph induced by some of its vertices in any order.                  *)
(***************************************************************************)
\* The arrays of distinct vertices of the graph.
Subvertices ==
  {q \in UNION {[1..k -> 0..(NumVertices - 1)] : k \in 0..NumVertices} :
     \A i, j \in 1..Len(q) : q[i] = q[j] => i = j}

\* induceSubgraph(subvertices)
InduceSubgraphCall(subvertices) ==
  /\ ~subgraph.called
  /\ subgraph' = InduceSubgraph(numVertices, edges, sealed, subvertices)
  /\ UNCHANGED <<graphVars, registryVars, boxVars, historyVars, world, callLog, system,
                 storage>>

InitInduce == GraphInit(NumVertices) /\ SystemInit /\ world = NoWorld /\ MoreInit

NextInduce ==
  \/ \E a \in 0..(NumVertices - 1), b \in 0..(NumVertices - 1), w \in 1..MaxWeight :
       ~subgraph.called /\ AddEdge(a, b, w)
  \/ \E a \in 0..(NumVertices - 1), b \in 0..(NumVertices - 1), w \in 1..MaxWeight :
       ~subgraph.called /\ DenyEdge(a, b, w)
  \/ ~subgraph.called /\ ~sealed /\ Seal
  \/ \E subvertices \in Subvertices : InduceSubgraphCall(subvertices)

SpecInduce == InitInduce /\ [][NextInduce]_vars

(***************************************************************************)
(* SpecPair: every graph over PairVertices vertices built by at most       *)
(* MaxPairCalls addEdge / denyEdge calls between distinct vertices, of     *)
(* weight up to MaxPairWeight, with the calls on record, sealed at any     *)
(* point.                                                                  *)
(***************************************************************************)
Call(op, source, target, weight) ==
  [op |-> op, source |-> source, target |-> target, weight |-> weight]

\* addEdge(source, target, weight), the call recorded
RecordedAddEdge(source, target, weight) ==
  /\ Len(callLog) < MaxPairCalls
  /\ ~sealed
  /\ weight > 0
  /\ graphError' = "none"
  /\ edges' = SetEdge(numVertices, edges, source, target, weight)
  /\ callLog' = Append(callLog, Call("add", source, target, weight))
  /\ UNCHANGED <<numVertices, sealed, sortedVertices, reportedCycles, edgesAtSeal, numCalls>>
  /\ UNCHANGED <<registryVars, boxVars, historyVars, world, subgraph, system, storage>>

\* denyEdge(source, target, weight), the call recorded
RecordedDenyEdge(source, target, weight) ==
  /\ Len(callLog) < MaxPairCalls
  /\ ~sealed
  /\ weight > 0
  /\ graphError' = "none"
  /\ edges' = SetEdge(numVertices, edges, source, target, -weight)
  /\ callLog' = Append(callLog, Call("deny", source, target, weight))
  /\ UNCHANGED <<numVertices, sealed, sortedVertices, reportedCycles, edgesAtSeal, numCalls>>
  /\ UNCHANGED <<registryVars, boxVars, historyVars, world, subgraph, system, storage>>

InitPair == GraphInit(PairVertices) /\ SystemInit /\ world = NoWorld /\ MoreInit

NextPair ==
  \/ \E a \in 0..(PairVertices - 1), b \in 0..(PairVertices - 1), w \in 1..MaxPairWeight :
       a # b /\ RecordedAddEdge(a, b, w)
  \/ \E a \in 0..(PairVertices - 1), b \in 0..(PairVertices - 1), w \in 1..MaxPairWeight :
       a # b /\ RecordedDenyEdge(a, b, w)
  \/ Seal

SpecPair == InitPair /\ [][NextPair]_vars

(***************************************************************************)
(* System.query, System.schedule, System.attach and the passes of the      *)
(* SystemBox over the system `system`.                                     *)
(***************************************************************************)
\* System.query(buildCallback)
SystemQuery(sys, buildCallback) ==
  IF sys.queryBuilders.null
  THEN [sys EXCEPT !.error = "Attempt to create a new query after world initialized"]
  ELSE [sys EXCEPT !.queryBuilders.list = Append(sys.queryBuilders.list, buildCallback),
                   !.error = "none"]

\* System.schedule(buildCallback)
SystemSchedule(sys, buildCallback) ==
  IF sys.scheduleBuilder = "null"
  THEN [sys EXCEPT !.error = "Attempt to define schedule after world initialized"]
  ELSE IF sys.scheduleBuilder # "undefined"
  THEN [sys EXCEPT !.error = "Attempt to define multiple schedules"]
  ELSE [sys EXCEPT !.scheduleBuilder = buildCallback, !.error = "none"]

\* field = this.attach(systemType)
SystemAttach(sys, field, systemType) ==
  [sys EXCEPT !.fields[field] = Placeholder(systemType), !.error = "none"]

\* Every builder of the list built in turn: each query joins shapeQueries
\* and, when it declares write access, writeQueries.
RECURSIVE BuildAll(_, _)
BuildAll(sys, builders) ==
  IF builders = <<>> THEN sys
  ELSE LET query == BuiltQuery(Head(builders))
           sys1 == [sys EXCEPT
                      !.shapeQueries = Append(sys.shapeQueries, query),
                      !.writeQueries = IF query.write THEN Append(sys.writeQueries, query)
                                       ELSE sys.writeQueries]
       IN Eager(sys1, BuildAll(sys1, Tail(builders)))

\* Mutant: buildQueries leaves __queryBuilders in place.
BoxBuildQueriesKeepingBuilders(sys) ==
  IF sys.queryBuilders.null
  THEN [sys EXCEPT !.error = "TypeError"]
  ELSE LET built == BuildAll(sys, sys.queryBuilders.list)
       IN [built EXCEPT
             !.hasWriteQueries = Len(built.writeQueries) # 0,
             !.hasTransientQueries =
                \E k \in DOMAIN built.shapeQueries : built.shapeQueries[k].hasTransientResults,
             !.queriesBuilt = TRUE,
             !.error = "none"]

\* SystemBox.buildQueries: the builders are built and dropped; iterating
\* the null left by an earlier call is a TypeError.
BoxBuildQueries(sys) ==
  IF sys.queryBuilders.null
  THEN [sys EXCEPT !.error = "TypeError"]
  ELSE LET built == BuildAll(sys, sys.queryBuilders.list)
       IN [built EXCEPT
             !.queryBuilders = [null |-> TRUE, list |-> <<>>],
             !.hasWriteQueries = Len(built.writeQueries) # 0,
             !.hasTransientQueries =
                \E k \in DOMAIN built.shapeQueries : built.shapeQueries[k].hasTransientResults,
             !.queriesBuilt = TRUE,
             !.error = "none"]

\* SystemBox.buildSchedule
BoxBuildSchedule(sys) ==
  [sys EXCEPT !.scheduleBuilder = "null", !.scheduleBuilt = TRUE, !.error = "none"]

\* The order in which `for (const prop in this.system)` meets the fields.
FieldOrder == <<"f1", "f2">>

\* SystemBox.replaceAttachmentPlaceholders, from the k-th field on: the
\* first placeholder whose type is not registered throws and leaves the
\* later fields as they are.
RECURSIVE ReplaceAttachmentPlaceholders(_, _)
ReplaceAttachmentPlaceholders(sys, k) ==
  IF k > Len(FieldOrder) THEN [sys EXCEPT !.finished = TRUE, !.error = "none"]
  ELSE LET prop == FieldOrder[k]
       IN IF sys.fields[prop].kind = "Placeholder"
          THEN LET targetSystemType == sys.fields[prop].type
                   targetSystem == SystemsByClass(sys.defs, targetSystemType)
               IN IF targetSystem = Undefined
                  THEN [sys EXCEPT !.error = "Attached system not defined in this world"]
                  ELSE LET sys1 == [sys EXCEPT !.fields[prop] = targetSystem]
                       IN Eager(sys1, ReplaceAttachmentPlaceholders(sys1, k + 1))
          ELSE ReplaceAttachmentPlaceholders(sys, k + 1)

\* dispatcher.writeLog: the dispatcher creates its write log when some
\* system of the world has write queries.
DispatcherHasWriteLog(sys) == sys.othersHaveWriteQueries \/ sys.hasWriteQueries

\* finishConstructing that allocates the pointer only for a system with
\* write queries of its own.
BoxFinishConstructingOwnWritesOnly(sys) ==
  LET sys1 == [sys EXCEPT !.writeLogPointer =
                 IF DispatcherHasWriteLog(sys) /\ sys.hasWriteQueries
                 THEN [defined |-> TRUE, index |-> CreatePointer(writeLog)]
                 ELSE NoPointer]
  IN ReplaceAttachmentPlaceholders(sys1, 1)

\* SystemBox.finishConstructing: this.dispatcher.writeLog?.createPointer(),
\* then the placeholders.
BoxFinishConstructing(sys) ==
  LET sys1 == [sys EXCEPT !.writeLogPointer =
                 IF DispatcherHasWriteLog(sys)
                 THEN [defined |-> TRUE, index |-> CreatePointer(writeLog)]
                 ELSE NoPointer]
  IN ReplaceAttachmentPlaceholders(sys1, 1)

QueryCall(buildCallback) ==
  /\ system.queryBuilders.null \/ Len(system.queryBuilders.list) < MaxQueryBuilders
  /\ system' = SystemQuery(system, buildCallback)
  /\ UNCHANGED <<graphVars, registryVars, boxVars, historyVars, world, callLog, subgraph,
                 storage>>

ScheduleCall(buildCallback) ==
  /\ system' = SystemSchedule(system, buildCallback)
  /\ UNCHANGED <<graphVars, registryVars, boxVars, historyVars, world, callLog, subgraph,
                 storage>>

AttachCall(field, systemType) ==
  /\ system' = SystemAttach(system, field, systemType)
  /\ UNCHANGED <<graphVars, registryVars, boxVars, historyVars, world, callLog, subgraph,
                 storage>>

BuildQueriesCall ==
  /\ system' = BoxBuildQueries(system)
  /\ UNCHANGED <<graphVars, registryVars, boxVars, historyVars, world, callLog, subgraph,
                 storage>>

BuildScheduleCall ==
  /\ system' = BoxBuildSchedule(system)
  /\ UNCHANGED <<graphVars, registryVars, boxVars, historyVars, world, callLog, subgraph,
                 storage>>

FinishConstructingCall ==
  /\ system' = BoxFinishConstructing(system)
  /\ UNCHANGED <<graphVars, registryVars, boxVars, historyVars, world, callLog, subgraph,
                 storage>>

(***************************************************************************)
(* SpecLifecycle: one system of a world with any registration, on which    *)
(* query, schedule and attach are called and the passes of its SystemBox   *)
(* run, in any order.                                                      *)
(***************************************************************************)
InitLifecycle ==
  /\ GraphInit(0)
  /\ SystemInit
  /\ world = NoWorld
  /\ callLog = <<>>
  /\ subgraph = NoSubgraph
  /\ storage = NoStorage
  /\ \E defs \in Registrations, othersHaveWriteQueries \in BOOLEAN :
        system = NewSystem(defs, othersHaveWriteQueries)

NextLifecycle ==
  \/ \E buildCallback \in BuildCallbacks : QueryCall(buildCallback)
  \/ \E buildCallback \in BuildCallbacks : ScheduleCall(buildCallback)
  \/ \E field \in Fields, systemType \in SystemTypes : AttachCall(field, systemType)
  \/ BuildQueriesCall
  \/ BuildScheduleCall
  \/ FinishConstructingCall

SpecLifecycle == InitLifecycle /\ [][NextLifecycle]_vars

(***************************************************************************)
(* PackedStorage: acquireIndex and releaseIndex.                           *)
(***************************************************************************)
\* Mutant: an exhausted storage that is not elastic grows all the same.
ExhaustedThrowsNever(st) == FALSE

\* CHECK: if (!this.binding.elastic) throw new Error('Storage exhausted ...')
ExhaustedThrows(st) == ~st.elastic

\* acquireIndex(id)
AcquireIndexOf(st, id) ==
  IF st.index[id] # -1
  THEN [st EXCEPT !.returned = st.index[id], !.error = "none"]
  ELSE IF st.spares.numSpares > 0
  THEN LET index == st.spares.spareIndices[st.spares.numSpares]
       IN [st EXCEPT !.spares.numSpares = st.spares.numSpares - 1,
                     !.spares.spareIndices = SubSeq(st.spares.spareIndices, 1,
                                                    st.spares.numSpares - 1),
                     !.index[id] = index,
                     !.returned = index,
                     !.error = "none"]
  ELSE IF st.spares.nextIndex = st.spares.capacity /\ ExhaustedThrows(st)
  THEN [st EXCEPT !.error = "Storage exhausted"]
  ELSE LET st1 == IF st.spares.nextIndex = st.spares.capacity
                  THEN GrowCapacity(
                         [st EXCEPT !.capacity = IF st.maxEntities < st.capacity * 2
                                                 THEN st.maxEntities
                                                 ELSE st.capacity * 2])
                  ELSE st
           index == st1.spares.nextIndex
       IN [st1 EXCEPT !.spares.nextIndex = index + 1,
                      !.index[id] = index,
                      !.returned = index,
                      !.error = "none"]

\* releaseIndex(id)
ReleaseIndexOf(st, id) ==
  IF st.index[id] = -1
  THEN [st EXCEPT !.error = "Internal error, index for entity not allocated"]
  ELSE LET st1 == IF st.spares.numSpares = st.maxSpares THEN GrowSpares(st) ELSE st
       IN [st1 EXCEPT !.spares.numSpares = st1.spares.numSpares + 1,
                      !.spares.spareIndices = Append(st1.spares.spareIndices, st.index[id]),
                      !.index[id] = -1,
                      !.error = "none"]

AcquireIndex(id) ==
  /\ storage' = AcquireIndexOf(storage, id)
  /\ UNCHANGED <<graphVars, registryVars, boxVars, historyVars, world, callLog, subgraph, system>>

ReleaseIndex(id) ==
  /\ storage' = ReleaseIndexOf(storage, id)
  /\ UNCHANGED <<graphVars, registryVars, boxVars, historyVars, world, callLog, subgraph, system>>

(***************************************************************************)
(* SpecStorage: the packed storage of a component type of a world of       *)
(* StorageEntities entities, fixed (options.capacity, at least 1 and at    *)
(* most maxEntities) or elastic (options.initialCapacity, which            *)
(* assimilateComponentType does not validate), on which indexes are        *)
(* acquired and released in any order.                                     *)
(***************************************************************************)
InitStorage ==
  /\ GraphInit(0)
  /\ SystemInit
  /\ world = NoWorld
  /\ callLog = <<>>
  /\ subgraph = NoSubgraph
  /\ system = NoSystem
  /\ \/ \E capacity \in 1..StorageEntities :
          storage = NewPackedStorage(StorageEntities, capacity, FALSE)
     \/ \E initialCapacity \in 0..(StorageEntities + 1) :
          storage = NewPackedStorage(StorageEntities, initialCapacity, TRUE)

NextStorage ==
  \/ \E id \in StorageIds : AcquireIndex(id)
  \/ \E id \in StorageIds : ReleaseIndex(id)

SpecStorage == InitStorage /\ [][NextStorage]_vars

(***************************************************************************)
(* Reference notions the claims are stated with.                           *)
(***************************************************************************)
Vertices == 0..(numVertices - 1)

\* The positive edges of an edge array, as a relation.
PositiveEdges(n, E) ==
  {pr \in (0..(n - 1)) \X (0..(n - 1)) : E[pr[1] * n + pr[2]] > 0}

\* The transitive closure of a relation: the pairs joined by a non-trivial path.
RECURSIVE TransitiveClosure(_)
TransitiveClosure(R) ==
  LET R2 == R \cup {<<pq[1][1], pq[2][2]>> : pq \in {x \in R \X R : x[1][2] = x[2][1]}}
  IN IF R2 = R THEN R ELSE TransitiveClosure(R2)

HasPositiveCycle(n, E) ==
  \E pr \in TransitiveClosure(PositiveEdges(n, E)) : pr[1] = pr[2]

SealFailed == sealed /\ reportedCycles # <<>>
SealSucceeded == sealed /\ reportedCycles = <<>>

\* The position of vertex v in the sorted sequence.
IndexOf(q, v) == CHOOSE k \in 1..Len(q) : q[k] = v

(***************************************************************************)
(* C1.  seal() fails with the precedence-cycle error if and only if the    *)
(* positive-weight edges at the time of sealing contain a directed cycle.  *)
(***************************************************************************)
C1_SealFailsIffCycle ==
  sealed => (SealFailed <=> HasPositiveCycle(numVertices, edgesAtSeal))

(***************************************************************************)
(* C2.  After a successful seal(), the sequence returned by                *)
(* topologicallSortedVertices places A strictly before B for every         *)
(* positive edge A -> B of the sealed graph (and holds every vertex).      *)
(***************************************************************************)
C2_TopologicalSoundness ==
  (SealSucceeded /\ sortedVertices # <<>>) =>
    /\ SeqToSet(sortedVertices) = Vertices
    /\ \A a \in Vertices, b \in Vertices :
         HasEdgeBetweenIds(numVertices, edges, a, b) =>
           IndexOf(sortedVertices, a) < IndexOf(sortedVertices, b)

\* A sorted graph with two surviving edges, one of them against the numbering.
C2_Witness ==
  /\ SealSucceeded
  /\ sortedVertices # <<>>
  /\ Cardinality(PositiveEdges(numVertices, edges)) >= 2
  /\ \E a \in Vertices, b \in Vertices :
       a > b /\ HasEdgeBetweenIds(numVertices, edges, a, b)

(***************************************************************************)
(* C3.  At the moment a RUNNING system's execute body is invoked, the      *)
(* result set of each of its queries is exactly the set of live entities   *)
(* whose current shape satisfies the query's predicate.                    *)
(***************************************************************************)
C3_QueryCorrectness ==
  (event.op = "execute" /\ event.body) =>
     \A k \in ShapeQueries(event.sys) :
        queries[event.sys][k].results = MatchingEntities(QueryDefs(event.sys)[k], shapes)

\* The body runs after an update that delivered shape changes, with
\* entities in the results of both queries.
C3_Witness ==
  /\ event.op = "execute" /\ event.body
  /\ event.shapeDelivered # <<>>
  /\ \A k \in ShapeQueries(event.sys) : queries[event.sys][k].results # {}

(***************************************************************************)
(* C4.  For either registration order of SystemA and SystemB, with         *)
(* SystemB declaring schedule(s => s.before(SystemA)), in every frame      *)
(* SystemB's execute completes before SystemA's execute starts, and the    *)
(* value SystemB writes into the attached SystemA is the value SystemA     *)
(* observes in that same frame.                                            *)
(***************************************************************************)
C4_ScheduleBefore ==
  \A i \in DOMAIN world.ran :
     world.ran[i] = "SystemA" =>
        /\ \E j \in 1..(i - 1) : world.ran[j] = "SystemB"
        /\ world.message = "hello"

\* The first frame has run SystemA in a world where SystemA was registered
\* before SystemB.
C4_Witness ==
  /\ world.defs = <<"SystemA", "SystemB">>
  /\ world.frame = 1
  /\ world.ran = <<"SystemB", "SystemA">>
  /\ world.message = "hello"

(***************************************************************************)
(* C5.  A stop() followed by restart() leaves every query of the system    *)
(* with exactly the live entities matching its predicate as results, as a  *)
(* freshly initialized system would hold, and with no transient results.   *)
(***************************************************************************)
C5_RestartConvergence ==
  (event.op = "restart" /\ event.wasStopped) =>
     \A k \in ShapeQueries(event.sys) :
        /\ queries[event.sys][k].results = MatchingEntities(QueryDefs(event.sys)[k], shapes)
        /\ queries[event.sys][k].transient = {}

\* A restart of a stopped system that had consumed shape changes before and
\* missed some while stopped, with entities to discover.
C5_Witness ==
  /\ event.op = "restart" /\ event.wasStopped
  /\ consumed[event.sys].shape >= 1
  /\ Len(shapeLog) > consumed[event.sys].shape
  /\ \E k \in ShapeQueries(event.sys) : queries[event.sys][k].results # {}

(***************************************************************************)
(* C6.  While a system is STOPPED every SystemBox.execute call is a no-op: *)
(* the execute body is not invoked, time and delta are not updated,        *)
(* neither log cursor advances, and all of its result sets stay empty.     *)
(***************************************************************************)
C6_StoppedExecuteIsNoOp ==
  [][\A s \in Systems :
       /\ (box[s].state = "STOPPED" /\ event'.op = "execute" /\ event'.sys = s) =>
             /\ ~event'.body
             /\ box'[s].time = box[s].time
             /\ box'[s].delta = box[s].delta
             /\ box'[s].shapeLogPointer = box[s].shapeLogPointer
             /\ box'[s].writeLogPointer = box[s].writeLogPointer
       /\ box'[s].state = "STOPPED" =>
             \A k \in ShapeQueries(s) :
                queries'[s][k].results = {} /\ queries'[s][k].transient = {}]_vars

\* An execute call on a stopped system that had run before, with unread
\* shape-log entries and a live entity its first query would match.
C6_Witness ==
  /\ event.op = "execute" /\ event.wasStopped
  /\ box[event.sys].time # 0
  /\ Len(shapeLog) > box[event.sys].shapeLogPointer
  /\ MatchingEntities(QueryDefs(event.sys)[1], shapes) # {}

(***************************************************************************)
(* C7.  No shape-log or write-log entry appended before restart()          *)
(* re-anchored the cursors is consumed by an update of the system after    *)
(* the restart: only entries appended after the restart are consumed.      *)
(***************************************************************************)
C7_NoReplayAfterRestart ==
  (event.op = "execute" /\ event.body) =>
     /\ event.shapeFrom >= restartTail[event.sys].shape
     /\ event.writeFrom >= restartTail[event.sys].write

\* An update after a restart that skipped unread shape-log entries, which
\* consumes an entry appended after the restart.
C7_Witness ==
  /\ event.op = "execute" /\ event.body
  /\ restartTail[event.sys].shapeFrom < restartTail[event.sys].shape
  /\ event.shapeFrom = restartTail[event.sys].shape
  /\ box[event.sys].shapeLogPointer > event.shapeFrom

(***************************************************************************)
(* C8.  Within one execute call each entity id is delivered to             *)
(* handleShapeUpdate at most once, however often it occurs in the newly    *)
(* consumed shape-log entries, and every id occurring in them is           *)
(* delivered.                                                              *)
(***************************************************************************)
C8_AtMostOnceDelivery ==
  (event.op = "execute" /\ event.body) =>
     LET ids == {shapeLog[i] : i \in (event.shapeFrom + 1)..box[event.sys].shapeLogPointer}
     IN /\ \A i, j \in DOMAIN event.shapeDelivered :
              event.shapeDelivered[i] = event.shapeDelivered[j] => i = j
        /\ SeqToSet(event.shapeDelivered) = ids

\* One update consumes two entries of the same entity and delivers it once.
C8_Witness ==
  /\ event.op = "execute" /\ event.body
  /\ box[event.sys].shapeLogPointer >= event.shapeFrom + 2
  /\ Len(event.shapeDelivered) = 1

(***************************************************************************)
(* C9.  Across execute, stop and restart calls neither log cursor of a     *)
(* system ever decreases, and no log entry is consumed by the same system  *)
(* in more than one update.                                                *)
(***************************************************************************)
C9_CursorsMonotonic ==
  [][\A s \in Systems :
       /\ box'[s].shapeLogPointer >= box[s].shapeLogPointer
       /\ box'[s].writeLogPointer >= box[s].writeLogPointer
       /\ (event'.op = "execute" /\ event'.sys = s /\ event'.body) =>
             /\ event'.shapeFrom >= consumed[s].shape
             /\ event'.writeFrom >= consumed[s].write]_vars

\* A second update consumes further shape-log entries after a first one
\* consumed some, with a stop and restart in the history.
C9_Witness ==
  /\ event.op = "execute" /\ event.body
  /\ event.shapeFrom >= 1
  /\ box[event.sys].shapeLogPointer > event.shapeFrom
  /\ restartTail[event.sys].shapeFrom >= 1

(***************************************************************************)
(* C10.  After a successful seal() of an acyclic graph no positive edge    *)
(* i -> j remains for which some vertex k has a non-trivial positive-edge  *)
(* path from i to k and one from k to j: the sealed graph is a minimal     *)
(* transitive reduction.                                                   *)
(***************************************************************************)
C10_ReductionMinimal ==
  (SealSucceeded /\ ~HasPositiveCycle(numVertices, edgesAtSeal)) =>
    LET reach == TransitiveClosure(PositiveEdges(numVertices, edges))
    IN \A i \in Vertices, j \in Vertices :
         HasEdgeBetweenIds(numVertices, edges, i, j) =>
           ~\E k \in Vertices : <<i, k>> \in reach /\ <<k, j>> \in reach

(***************************************************************************)
(* C11.  The cycles returned by findCycles (and listed in the seal error)  *)
(* are exactly the elementary directed cycles of the positive-edge graph:  *)
(* every elementary cycle is reported, once, and every reported vertex     *)
(* sequence is an elementary cycle.                                        *)
(***************************************************************************)
\* The elementary cycles of the positive edges, each as the sequence of its
\* vertices that starts at its least vertex.
ElementaryCycles(n, E) ==
  {c \in UNION {[1..k -> 0..(n - 1)] : k \in 2..n} :
     /\ \A i, j \in 1..Len(c) : c[i] = c[j] => i = j
     /\ \A i \in 2..Len(c) : c[1] < c[i]
     /\ \A i \in 1..(Len(c) - 1) : HasEdgeBetweenIds(n, E, c[i], c[i + 1])
     /\ HasEdgeBetweenIds(n, E, c[Len(c)], c[1])}

C11_AllCyclesReported ==
  sealed =>
     /\ SeqToSet(reportedCycles) = ElementaryCycles(numVertices, edgesAtSeal)
     /\ \A i, j \in 1..Len(reportedCycles) : reportedCycles[i] = reportedCycles[j] => i = j

(***************************************************************************)
(* C12.  On a vertex pair with no other entries, once deny(A,B,w) and      *)
(* add(A,B,w') with w' < w have both been applied, in either order, there  *)
(* is no positive edge A -> B, before seal and after it, and after a       *)
(* successful seal the pair holds no entry in either direction.            *)
(***************************************************************************)
\* The calls made so far on the pair {a, b}, as a sequence.
CallsOnPair(a, b) ==
  SelectSeq(callLog, LAMBDA c : {c.source, c.target} = {a, b})

\* The calls on the pair {a, b} are exactly c1 and c2, in either order.
PairHadExactly(a, b, c1, c2) ==
  CallsOnPair(a, b) \in {<<c1, c2>>, <<c2, c1>>}

C12_DenialOverridesWeakerAdd ==
  \A a \in Vertices, b \in Vertices, w \in 1..MaxPairWeight, w2 \in 1..MaxPairWeight :
     (a # b /\ w2 < w /\ PairHadExactly(a, b, Call("deny", a, b, w), Call("add", a, b, w2))) =>
        /\ ~HasEdgeBetweenIds(numVertices, edges, a, b)
        /\ SealSucceeded =>
              /\ edges[GetEdgeIndex(numVertices, a, b)] = 0
              /\ edges[GetEdgeIndex(numVertices, b, a)] = 0

\* The weaker add came after the denial and the graph was sealed.
C12_Witness ==
  /\ SealSucceeded
  /\ \E a \in Vertices, b \in Vertices :
        callLog = <<Call("deny", a, b, 2), Call("add", a, b, 1)>>


\* C13: on a pair whose only calls are add(A,B,w) and deny(A,B,w) of one
\* magnitude, applied in either order, hasEdge(A,B) is false.
C13_DenialSuppressesEqualAdd ==
  \A a \in Vertices, b \in Vertices, w \in 1..MaxPairWeight :
     (a # b /\ PairHadExactly(a, b, Call("add", a, b, w), Call("deny", a, b, w))) =>
        ~HasEdgeBetweenIds(numVertices, edges, a, b)

\* C14: on a pair whose only calls are add(A,B,w) followed by add(B,A,w')
\* with w' > w, the entry B->A holds w' and the entry A->B is cleared.
C14_StrongerDirectionWins ==
  \A a \in Vertices, b \in Vertices, w \in 1..MaxPairWeight, w2 \in 1..MaxPairWeight :
     (a # b /\ w2 > w /\ CallsOnPair(a, b) = <<Call("add", a, b, w), Call("add", b, a, w2)>>) =>
        /\ edges[GetEdgeIndex(numVertices, a, b)] = 0
        /\ ~sealed => edges[GetEdgeIndex(numVertices, b, a)] = w2

C14_Witness ==
  /\ ~sealed
  /\ \E a \in Vertices, b \in Vertices :
        /\ a # b
        /\ callLog = <<Call("add", a, b, 1), Call("add", b, a, 2)>>
        /\ edges[GetEdgeIndex(numVertices, b, a)] = 2

\* C15: whatever addEdge / denyEdge calls were made, no two distinct
\* vertices hold a positive edge in both directions and no vertex holds an
\* entry to itself.
C15_SingleDirectionPerPair ==
  \A a \in Vertices, b \in Vertices :
     /\ a # b => ~(/\ HasEdgeBetweenIds(numVertices, edges, a, b)
                   /\ HasEdgeBetweenIds(numVertices, edges, b, a))
     /\ edges[GetEdgeIndex(numVertices, a, a)] = 0


\* C16: the graph induceSubgraph returns holds, when the parent is not
\* sealed, the parent's entry (sign and weight) for every two of its
\* vertices; when the parent is sealed it is sealed and holds a positive
\* edge between two of its vertices exactly where the parent does.
C16_InducedSubgraphFaithful ==
  (subgraph.called /\ subgraph.error = "none") =>
     LET sub == subgraph.subvertices
         m == Len(sub)
     IN \A i \in 1..m, j \in 1..m :
           LET own == subgraph.edges[GetEdgeIndex(m, i - 1, j - 1)]
               parent == subgraph.parentEdges[GetEdgeIndex(numVertices, sub[i], sub[j])]
           IN IF subgraph.parentSealed
              THEN subgraph.sealed /\ (own > 0 <=> parent > 0)
              ELSE own = parent


\* C17: on a sealed graph every addEdge, denyEdge and seal call fails with
\* 'Graph already sealed' and leaves the edges as they were; on a graph not
\* yet sealed the topologicallSortedVertices getter fails with 'Graph not
\* yet sealed'.
C17_SealedGraphRejectsCalls ==
  [][/\ (/\ sealed
         /\ \/ \E a \in Vertices, b \in Vertices, w \in 1..MaxWeight : AddEdge(a, b, w)
            \/ \E a \in Vertices, b \in Vertices, w \in 1..MaxWeight : DenyEdge(a, b, w)
            \/ Seal)
        => (graphError' = "Graph already sealed" /\ edges' = edges)
     /\ (~sealed /\ GetTopologicallSortedVertices)
        => (graphError' = "Graph not yet sealed" /\ sortedVertices' = <<>>)]_vars

C17_Witness ==
  /\ sealed
  /\ graphError = "Graph already sealed"
  /\ numCalls > 0


\* C18: query() is accepted until buildQueries has run, schedule() once and
\* until buildSchedule has run; a query() after buildQueries, a schedule()
\* after buildSchedule and a second schedule() fail with an error and leave
\* the query builders and the schedule builder as they were.
C18_BuildersClosedAfterBuild ==
  [][/\ (/\ \E cb \in BuildCallbacks : QueryCall(cb)
         /\ system.queriesBuilt)
        => /\ system'.error = "Attempt to create a new query after world initialized"
           /\ system'.queryBuilders = system.queryBuilders
           /\ system'.scheduleBuilder = system.scheduleBuilder
     /\ (/\ \E cb \in BuildCallbacks : QueryCall(cb)
         /\ ~system.queriesBuilt)
        => /\ system'.error = "none"
           /\ Len(system'.queryBuilders.list) = Len(system.queryBuilders.list) + 1
     /\ (/\ \E cb \in BuildCallbacks : ScheduleCall(cb)
         /\ system.scheduleBuilt \/ system.scheduleBuilder \in BuildCallbacks)
        => /\ system'.error \in {"Attempt to define schedule after world initialized",
                                 "Attempt to define multiple schedules"}
           /\ system'.queryBuilders = system.queryBuilders
           /\ system'.scheduleBuilder = system.scheduleBuilder
     /\ (/\ \E cb \in BuildCallbacks : ScheduleCall(cb)
         /\ ~system.scheduleBuilt
         /\ system.scheduleBuilder \notin BuildCallbacks)
        => /\ system'.error = "none"
           /\ system'.scheduleBuilder \in BuildCallbacks]_vars

C18_Witness ==
  /\ system.queriesBuilt
  /\ system.scheduleBuilt
  /\ system.error = "Attempt to create a new query after world initialized"

\* C19: finishConstructing replaces every field holding a placeholder with
\* the instance registered for the placeholder's type, whatever the order of
\* registration, and fails if that type is not registered; once it has
\* succeeded no field of the system holds a placeholder, then or later.
C19_PlaceholdersResolvedForGood ==
  [][/\ FinishConstructingCall =>
          IF \A f \in Fields :
                system.fields[f].kind = "Placeholder" =>
                   \E i \in DOMAIN system.defs : system.defs[i] = system.fields[f].type
          THEN /\ system'.error = "none"
               /\ \A f \in Fields :
                     system'.fields[f] =
                        IF system.fields[f].kind = "Placeholder"
                        THEN Instance(system.fields[f].type)
                        ELSE system.fields[f]
          ELSE system'.error = "Attached system not defined in this world"
     /\ system.finished => \A f \in Fields : system'.fields[f].kind # "Placeholder"]_vars

\* C20: acquireIndex for an entity without an index, with no spare index
\* and nextIndex equal to the capacity, fails with 'Storage exhausted' and
\* leaves the index table and the spares as they were if the storage is
\* not elastic; if it is elastic the call succeeds, the capacity becomes
\* min(maxEntities, 2 * capacity) and the index returned is one no entity
\* held and lies below the new capacity.
C20_ExhaustedStorage ==
  [][\A id \in StorageIds :
        (/\ AcquireIndex(id)
         /\ storage.index[id] = -1
         /\ storage.spares.numSpares = 0
         /\ storage.spares.nextIndex = storage.spares.capacity)
        => IF ~storage.elastic
           THEN /\ storage'.error = "Storage exhausted"
                /\ storage'.index = storage.index
                /\ storage'.spares = storage.spares
           ELSE /\ storage'.error = "none"
                /\ storage'.capacity = IF storage.maxEntities < 2 * storage.capacity
                                       THEN storage.maxEntities ELSE 2 * storage.capacity
                /\ storage'.spares.capacity = storage'.capacity
                /\ storage'.index[id] = storage'.returned
                /\ \A other \in StorageIds : storage.index[other] # storage'.returned
                /\ storage'.returned >= 0
                /\ storage'.returned < storage'.capacity]_vars


\* The pair of steps of one insertion of A->B with signed weight w: dropped
\* when `skipped`, and otherwise stored in A->B, with B->A cleared when w is
\* of greater magnitude than B->A and kept when it is not.
InsertionOutcome(a, b, w, skipped) ==
  LET aToB == GetEdgeIndex(numVertices, a, b)
      bToA == GetEdgeIndex(numVertices, b, a)
  IN IF skipped
     THEN edges' = edges
     ELSE /\ edges'[aToB] = w
          /\ edges'[bToA] = IF Abs(w) > Abs(edges[bToA]) THEN 0 ELSE edges[bToA]
          /\ \A k \in DOMAIN edges : k \notin {aToB, bToA} => edges'[k] = edges[k]

\* The insertions of a step: addEdge(a, b, w) inserts w, denyEdge(a, b, w)
\* inserts -w.
InsertionsFollow(Skipped(_, _, _)) ==
  \A a \in Vertices, b \in Vertices, w \in 1..MaxPairWeight :
     a # b =>
       /\ RecordedAddEdge(a, b, w) => InsertionOutcome(a, b, w, Skipped(a, b, w))
       /\ RecordedDenyEdge(a, b, w) => InsertionOutcome(a, b, -w, Skipped(a, b, w))

BelowBoth(a, b, w) ==
  /\ w < Abs(edges[GetEdgeIndex(numVertices, a, b)])
  /\ w < Abs(edges[GetEdgeIndex(numVertices, b, a)])

BelowEither(a, b, w) ==
  \/ w < Abs(edges[GetEdgeIndex(numVertices, a, b)])
  \/ w < Abs(edges[GetEdgeIndex(numVertices, b, a)])

\* C21 as stated: an insertion of A->B with signed weight w (A # B, by
\* addEdge or denyEdge) is dropped exactly when |w| is below both |A->B| and
\* |B->A|; otherwise A->B holds w afterwards and B->A is cleared exactly
\* when |w| > |B->A|.
C21_SkippedBelowBoth == [][InsertionsFollow(BelowBoth)]_vars

\* C21, amended: the insertion is dropped exactly when |w| is below |A->B|
\* or below |B->A|; otherwise A->B holds w afterwards and B->A is cleared
\* exactly when |w| > |B->A|.
C21_SkippedBelowEither == [][InsertionsFollow(BelowEither)]_vars

\* An add of weight 1 met a stronger edge in the opposite direction only and
\* was dropped.
C21_Witness ==
  \E a \in Vertices, b \in Vertices :
     /\ a # b
     /\ callLog = <<Call("add", b, a, 2), Call("add", a, b, 1)>>
     /\ edges[GetEdgeIndex(numVertices, a, b)] = 0
     /\ edges[GetEdgeIndex(numVertices, b, a)] = 2


\* The sequence holds every vertex of the graph exactly once.
HoldsEveryVertexOnce(q) ==
  /\ Len(q) = numVertices
  /\ SeqToSet(q) = Vertices

\* C22: after a seal() that returned without error, a read of
\* topologicallSortedVertices never meets a round without progress (the
\* failure 'Graph has a cycle, topological sort not possible', which stands
\* for the loop that does not end when the check is compiled out): it
\* returns, and the sequence it returns holds every vertex exactly once.
C22_SortTerminates ==
  [][(SealSucceeded /\ GetTopologicallSortedVertices) =>
        /\ graphError' = "none"
        /\ HoldsEveryVertexOnce(sortedVertices')]_vars

\* The sort returned on a graph whose seal() had let a cycle of positive
\* edges through.
C22_Witness ==
  /\ SealSucceeded
  /\ graphError = "none"
  /\ sortedVertices # <<>>
  /\ HasPositiveCycle(numVertices, edgesAtSeal)


\* C23: when a RUNNING system executes while neither its shape-log cursor
\* nor, if it owns write queries, its write-log cursor has new entries,
\* every transient result set of its queries is empty when the execute body
\* runs and ranQueriesLastFrame is false afterwards; and in every execute
\* the transient results the body sees hold only entities which the update
\* of this very execute delivered, never one left by an earlier execute.
C23_TransientsLastOneUpdate ==
  [][\A s \in DOMAIN box :
        Execute(s, MaxTime, MaxDelta) =>
          /\ (/\ box[s].state = "RUNNING"
              /\ ~HasUpdatesSince(shapeLog, box[s].shapeLogPointer)
              /\ ~(WriteQueries(s) # {} /\ HasUpdatesSince(writeLog, box[s].writeLogPointer)))
             => /\ event'.body
                /\ \A k \in DOMAIN queries'[s] : queries'[s][k].transient = {}
                /\ ~box'[s].ranQueriesLastFrame
          /\ event'.body =>
                \A k \in DOMAIN queries'[s] :
                   queries'[s][k].transient \subseteq
                     (SeqToSet(event'.shapeDelivered)
                        \cup {event'.writeDelivered[i][1] : i \in DOMAIN event'.writeDelivered})]_vars

\* S2, which owns no write query, has executed without new shape-log
\* entries while the write log held an entry it never consumes; the entity
\* its earlier update had found is in the results and no longer transient.
C23_Witness ==
  /\ event.op = "execute" /\ event.sys = "S2" /\ event.body
  /\ event.shapeDelivered = <<>>
  /\ box["S2"].shapeLogPointer = Len(shapeLog)
  /\ Len(writeLog) > 0
  /\ restartTail["S2"].shape = 0
  /\ queries["S2"][1].results # {}
  /\ queries["S2"][1].transient = {}
  /\ ~box["S2"].ranQueriesLastFrame


\* What handleWrite is to receive for a write-log entry: the entity and the
\* flag word and bit of the component type the entry packs.
WriteEvent(entry) ==
  CHOOSE w \in Entities \X {0} \X {1, 2} :
     \E c \in ComponentTypes :
        /\ entry = WriteEntry(c, w[1])
        /\ w[2] * 32 <= TypeId(c) /\ TypeId(c) < (w[2] + 1) * 32
        /\ w[3] = 2 ^ (TypeId(c) - w[2] * 32)

\* C24: in one update of a system that owns write queries, the write-log
\* entries newly consumed are delivered to handleWrite in their order, each
\* with wordOffset = componentTypeId >> 5 and bitMask = 1 << (componentTypeId
\* & 31), except those whose entity occurs among the shape-log entries the
\* same update consumed: such an entry is skipped, and no other is (an
\* entity marked in an earlier update only is delivered).
C24_WritesSkippedIffShapeChanged ==
  (event.op = "execute" /\ event.body /\ WriteQueries(event.sys) # {}) =>
     LET s == event.sys
         shapeIds == {shapeLog[i] : i \in (event.shapeFrom + 1)..box[s].shapeLogPointer}
         consumedWrites == SubSeq(writeLog, event.writeFrom + 1, box[s].writeLogPointer)
         due == SelectSeq(consumedWrites, LAMBDA entry : WriteEvent(entry)[1] \notin shapeIds)
     IN event.writeDelivered = [k \in DOMAIN due |-> WriteEvent(due[k])]

\* An update delivered the write of an entity whose shape an earlier update
\* of the system had consumed, and which this update did not.
C24_Witness ==
  /\ event.op = "execute" /\ event.body
  /\ Len(event.writeDelivered) = 1
  /\ event.shapeFrom >= 1
  /\ \E i \in 1..event.shapeFrom : shapeLog[i] = event.writeDelivered[1][1]
  /\ restartTail[event.sys].shape = 0


\* C25 as stated: after finishConstructing the system holds a write-log
\* cursor if and only if it owns at least one write query, whatever the
\* other systems of the world own.
C25_CursorIffOwnWriteQueries ==
  [][FinishConstructingCall =>
        (system'.writeLogPointer.defined <=> Len(system'.writeQueries) > 0)]_vars

\* C25, amended: after finishConstructing the system holds a write-log
\* cursor if and only if the dispatcher has a write log, that is if and only
\* if some system of the world owns a write query; the system's own write
\* queries suffice and are not needed.
C25_CursorIffWorldHasWriteLog ==
  [][FinishConstructingCall =>
        /\ system'.writeLogPointer.defined <=>
              (Len(system'.writeQueries) > 0 \/ system'.othersHaveWriteQueries)
        /\ system'.writeLogPointer.defined =>
              system'.writeLogPointer.index = Len(writeLog)]_vars

\* A system that built a query without write access, and no write query,
\* holds a cursor after finishConstructing: another system owns a write
\* query.
C25_Witness ==
  /\ system.finished
  /\ system.queriesBuilt
  /\ Len(system.shapeQueries) > 0
  /\ Len(system.writeQueries) = 0
  /\ system.othersHaveWriteQueries
  /\ system.writeLogPointer.defined


\* C26: on a graph whose positive edges held no cycle when seal() was
\* entered, seal() keeps the reachability along positive edges as it was:
\* j is reachable from i after the seal if and only if it was before; and
\* the topological order places A before B for every positive edge A -> B
\* the graph held before the reduction.
C26_SealKeepsReachability ==
  (SealSucceeded /\ ~HasPositiveCycle(numVertices, edgesAtSeal)) =>
     /\ TransitiveClosure(PositiveEdges(numVertices, edges))
          = TransitiveClosure(PositiveEdges(numVertices, edgesAtSeal))
     /\ sortedVertices # <<>> =>
          \A pr \in PositiveEdges(numVertices, edgesAtSeal) :
             IndexOf(sortedVertices, pr[1]) < IndexOf(sortedVertices, pr[2])

\* The reduction removed a positive edge of an acyclic graph and the graph
\* was sorted.
C26_Witness ==
  /\ SealSucceeded
  /\ ~HasPositiveCycle(numVertices, edgesAtSeal)
  /\ PositiveEdges(numVertices, edges) # PositiveEdges(numVertices, edgesAtSeal)
  /\ sortedVertices # <<>>


\* The signed weight a recorded call inserts.
SignedWeight(c) == IF c.op = "deny" THEN -c.weight ELSE c.weight

\* C27: while the graph is not sealed, on every pair of vertices whose
\* calls so far (adds and denials, in either direction) have pairwise
\* distinct magnitudes, the entries of the pair are those of the call of
\* greatest magnitude alone, whatever the order of the calls: its signed
\* weight in its direction and 0 in the opposite direction.  And at all
\* times two nonzero entries of one pair have the same magnitude.
C27_GreatestMagnitudeWins ==
  \A a \in Vertices, b \in Vertices :
     a # b =>
       LET cs == CallsOnPair(a, b)
           aToB == edges[GetEdgeIndex(numVertices, a, b)]
           bToA == edges[GetEdgeIndex(numVertices, b, a)]
       IN /\ (/\ ~sealed
              /\ cs # <<>>
              /\ \A i, j \in DOMAIN cs : cs[i].weight = cs[j].weight => i = j) =>
                LET top == CHOOSE c \in SeqToSet(cs) : \A d \in SeqToSet(cs) : d.weight <= c.weight
                IN /\ edges[GetEdgeIndex(numVertices, top.source, top.target)] = SignedWeight(top)
                   /\ edges[GetEdgeIndex(numVertices, top.target, top.source)] = 0
          /\ (aToB # 0 /\ bToA # 0) => Abs(aToB) = Abs(bToA)

\* A denial of weight 2 came after an add of weight 1 in the opposite
\* direction and is the only entry of the pair.
C27_Witness ==
  /\ ~sealed
  /\ \E a \in Vertices, b \in Vertices :
        /\ a # b
        /\ callLog = <<Call("add", b, a, 1), Call("deny", a, b, 2)>>
        /\ edges[GetEdgeIndex(numVertices, a, b)] = -2
        /\ edges[GetEdgeIndex(numVertices, b, a)] = 0


\* The entities that hold index i, and the places of the spare list that
\* list it.
HoldersOf(st, i) == {id \in DOMAIN st.index : st.index[id] = i}
SparePlacesOf(st, i) == {k \in 1..st.spares.numSpares : st.spares.spareIndices[k] = i}

\* C28: after every acquireIndex and releaseIndex call each index of
\* 0 .. nextIndex - 1 is either held by exactly one entity or listed exactly
\* once among the spares, every held index is one of them and no two
\* entities share one, every held index is below the capacity, and
\* acquireIndex for an entity that holds an index returns that index and
\* leaves the index table, the spares and the capacity as they were.
C28_IndexPartition ==
  [][/\ \A i \in 0..(storage'.spares.nextIndex - 1) :
           Cardinality(HoldersOf(storage', i)) + Cardinality(SparePlacesOf(storage', i)) = 1
     /\ \A id \in StorageIds :
           storage'.index[id] # -1 =>
              /\ storage'.index[id] >= 0
              /\ storage'.index[id] < storage'.spares.nextIndex
              /\ storage'.index[id] < storage'.capacity
     /\ \A id \in StorageIds :
           (AcquireIndex(id) /\ storage.index[id] # -1) =>
              /\ storage'.returned = storage.index[id]
              /\ storage'.index = storage.index
              /\ storage'.spares = storage.spares
              /\ storage'.capacity = storage.capacity]_vars

====
